---- MODULE Spec2Model ----
(***************************************************************************)
(* The pointer-event dispatcher of packages/fiber/src/core/events.ts:      *)
(* the interaction registry (interaction, hovered, capturedMap,            *)
(* initialHit, initialClick) and the handlers returned by handlePointer,   *)
(* together with removeInteractivity.  One action is one raw input event   *)
(* processed start to finish (events.ts is single-threaded and             *)
(* synchronous), or one call of removeInteractivity.                       *)
(*                                                                         *)
(* The raycaster, the scene graph and the handlers of the application are  *)
(* external: a raycast result is an input of every event, the scene graph  *)
(* is a fixed tree, and the handlers an application attaches are one of a  *)
(* few scenes, drawn when the canvas is created.  What an event does (the  *)
(* registry after it, the handlers it invoked in order, the intersection   *)
(* list it dispatched) is the value of the operator that models its        *)
(* handler; the actions store the registry.                                *)
(***************************************************************************)
EXTENDS Integers, Sequences, FiniteSets, TLC

VARIABLES
    scene,        \* which application (handler sets) is mounted; never changes
    mounted,      \* the objects still attached to the scene graph
    interaction,  \* internal.interaction: the registered objects, in order
    hovered,      \* internal.hovered: pointer id -> the last hover event data
    capturedMap,  \* internal.capturedMap: pointer id -> the capture intersection
    capturedKeys, \* the pointer ids of capturedMap in the order of insertion,
                  \* which Map.forEach follows
    initialHit,   \* internal.initialHit
    initialClick, \* internal.initialClick
    paired,       \* history: pointer id -> the objects given onPointerOver
                  \* and no onPointerOut since (kept by SpecPaired only)
    clean,        \* history: pointer id -> its hover entry was made by a move
                  \* without capture or stopPropagation (SpecPaired only)
    walk          \* one walk along parent links, step by step, in a parent
                  \* graph that may be cyclic (run by SpecWalk only)

vars == <<scene, mounted, interaction, hovered, capturedMap, capturedKeys,
          initialHit, initialClick, paired, clean, walk>>

(***************************************************************************)
(* Bounds of the model.                                                    *)
(***************************************************************************)
\* offsetX and offsetY of a press or a click range over 0..MaxCoord
MaxCoord == 2
\* the raycaster returns at most MaxRawHits hit records for one event
MaxRawHits == 2
\* the points of a point cloud have the indices 0..MaxIndex
MaxIndex == 1

(***************************************************************************)
(* Values.                                                                 *)
(***************************************************************************)
\* null / undefined where an object is expected
None == "none"
\* undefined where a number (index, instanceId) is expected
Undef == 0 - 1
\* an event that is no PointerEvent has no pointerId
NoPointerId == "nopointerid"
Pointers == {"p1", "p2"}

\* The scene graph: group G holds group H and mesh B; H holds A.
Objects == {"G", "H", "A", "B"}
\* Object3D.parent
Parent(o) ==
    CASE o = "A" -> "H"
      [] o = "H" -> "G"
      [] o = "B" -> "G"
      [] OTHER   -> None

\* The objects with geometry, which a ray can hit and the renderer unmounts.
Geometry == {"A", "B"}

AT_TARGET == "AT_TARGET"
BUBBLING_PHASE == "BUBBLING_PHASE"

\* The keys of EventHandlers.
HandlerNames ==
    {"onClick", "onContextMenu", "onDoubleClick", "onPointerUp",
     "onPointerDown", "onPointerOver", "onPointerOut", "onPointerEnter",
     "onPointerLeave", "onPointerMove", "onPointerMissed", "onPointerCancel",
     "onWheel"}

\* An Intersection (and the part of a ThreeEvent the registry reads).
Hit(object, eventObject, index, instanceId) ==
    [object |-> object, eventObject |-> eventObject,
     index |-> index, instanceId |-> instanceId]
\* Map.get(id) === undefined
NoEntry == Hit(None, None, Undef, Undef)

(***************************************************************************)
(* The applications.  A scene fixes, for every object, the handlers it     *)
(* defines (instance.__r3f.handlers) and what each handler does with the   *)
(* event it is given: call stopPropagation, call                           *)
(* target.setPointerCapture(event.pointerId), or call                      *)
(* target.releasePointerCapture(event.pointerId).                          *)
(***************************************************************************)
Scenes ==
    {"capture", "stop", "parent", "front", "instanced", "filtered", "points"}

\* instance.__r3f.handlers, as the set of the keys that are defined
SceneHandlers(sc, o) ==
    CASE sc = "capture" /\ o = "A" ->
           {"onPointerDown", "onPointerUp", "onPointerMove", "onPointerOver",
            "onPointerOut", "onPointerLeave", "onClick", "onPointerMissed"}
      [] sc = "capture" /\ o = "G" ->
           {"onPointerDown", "onPointerMove", "onPointerOver", "onPointerOut",
            "onClick", "onPointerMissed"}
      [] sc = "capture" /\ o = "B" ->
           {"onPointerDown", "onPointerMove", "onPointerOver", "onPointerOut",
            "onClick", "onDoubleClick", "onWheel", "onPointerMissed"}
      [] sc = "stop" /\ o = "A" ->
           {"onPointerDown", "onPointerOver", "onPointerEnter",
            "onPointerMove", "onPointerOut", "onClick"}
      [] sc = "stop" /\ o = "H" ->
           {"onPointerDown", "onPointerOver", "onPointerEnter",
            "onPointerMove", "onPointerOut", "onClick"}
      [] sc = "stop" /\ o = "G" ->
           {"onPointerDown", "onPointerOver", "onPointerEnter",
            "onPointerMove", "onPointerOut", "onClick", "onPointerMissed"}
      [] sc = "stop" /\ o = "B" ->
           {"onPointerDown", "onPointerUp", "onContextMenu", "onPointerMissed"}
      [] sc = "parent" /\ o = "A" ->
           {"onPointerOver", "onPointerOut", "onPointerUp"}
      [] sc = "parent" /\ o = "G" ->
           {"onPointerDown", "onPointerUp", "onPointerMove", "onPointerLeave"}
      [] sc = "front" /\ o = "B" -> {"onClick"}
      [] sc = "front" /\ o = "G" ->
           {"onPointerOver", "onPointerOut", "onPointerMissed"}
      [] sc = "instanced" /\ o = "B" -> {"onPointerOver", "onPointerOut"}
      [] sc = "filtered" /\ o = "A" -> {"onPointerOver", "onPointerOut"}
      [] sc = "filtered" /\ o = "B" ->
           {"onPointerOver", "onPointerOut", "onClick"}
      [] sc = "points" /\ o = "A" ->
           {"onPointerOver", "onPointerMove", "onPointerOut"}
      [] OTHER -> {}

\* the handlers <<object, key>> that call event.stopPropagation()
SceneStops(sc) ==
    IF sc = "stop"
    THEN {<<"H", "onPointerDown">>, <<"H", "onPointerOver">>,
          <<"H", "onClick">>, <<"B", "onPointerDown">>}
    ELSE {}

\* the handlers that call event.target.setPointerCapture(event.pointerId)
SceneCaptures(sc) ==
    CASE sc = "capture" -> {<<"A", "onPointerDown">>}
      [] sc = "parent"  -> {<<"G", "onPointerDown">>}
      [] OTHER          -> {}

\* the handlers that call event.target.releasePointerCapture(event.pointerId)
SceneReleases(sc) ==
    CASE sc = "capture" -> {<<"A", "onPointerUp">>}
      [] sc = "parent"  -> {<<"G", "onPointerUp">>}
      [] OTHER          -> {}

\* raycaster.filter: the application's hook that may reorder or replace the
\* de-duplicated raycast result
Filters == {"reverse", "dropAll", "duplicateFirst"}

\* raycaster.filter is not defined
NoFilter == "none"

\* the hook a raycast of the scene finds installed: the application of the
\* scene "filtered" has always one of the hooks in place, the others none
SceneFilters(sc) == IF sc = "filtered" THEN Filters ELSE {NoFilter}

\* state.onPointerMissed, the handler of the canvas, is defined
SceneOnPointerMissed(sc) == sc \in {"capture", "front"}

\* the index of a raycast hit on object o: in the scene "points" A is a
\* point cloud, whose hits carry the index of a point; a mesh hit has none
HitIndexes(sc, o) ==
    IF sc = "points" /\ o = "A" THEN 0..MaxIndex ELSE {Undef}

\* the <<index, instanceId>> a raycast can report for a hit of object o: B
\* of the scene "instanced" reports both
HitInstances(sc, o) ==
    IF sc = "instanced" /\ o = "B"
    THEN {<<1, 12>>, <<11, 2>>}
    ELSE {<<i, Undef>> : i \in HitIndexes(sc, o)}

Handlers(o) == SceneHandlers(scene, o)
\* instance.__r3f.eventCount: the number of handlers the object defines
EventCount(o) == Cardinality(Handlers(o))

(***************************************************************************)
(* Pure helpers.                                                           *)
(***************************************************************************)
\* isAncestor(ancestor, child): walks child's parent links
RECURSIVE isAncestor(_, _)
isAncestor(ancestor, child) ==
    IF child = None THEN FALSE
    ELSE IF child = ancestor THEN TRUE
    ELSE isAncestor(ancestor, Parent(child))

\* the decimal digits of a natural number, as JavaScript prints it
RECURSIVE Digits(_)
Digits(n) ==
    LET digit(d) == <<"0", "1", "2", "3", "4", "5", "6", "7", "8", "9">>[d + 1]
    IN  IF n < 10 THEN <<digit(n)>> ELSE Digits(n \div 10) \o <<digit(n % 10)>>

\* the string JavaScript concatenates for an index or instanceId
JsString(x) == IF x = Undef THEN <<"undefined">> ELSE Digits(x)

\* makeId(event): uuid + '/' + index + instanceId, a string concatenation
makeId(hit) ==
    <<IF hit.eventObject # None THEN hit.eventObject ELSE hit.object, "/">>
        \o JsString(hit.index) \o JsString(hit.instanceId)

\* Array.filter with the `seen` set of intersect()
RECURSIVE FilterSeen(_, _)
FilterSeen(items, seen) ==
    IF items = <<>> THEN <<>>
    ELSE IF makeId(Head(items)) \in seen
         THEN FilterSeen(Tail(items), seen)
         ELSE <<Head(items)>>
                \o FilterSeen(Tail(items), seen \cup {makeId(Head(items))})

\* raycaster.filter(intersects, state), for the hooks of the scenes
ApplyFilter(filter, items) ==
    CASE filter = "reverse" ->
           [i \in 1..Len(items) |-> items[Len(items) + 1 - i]]
      [] filter = "dropAll" -> <<>>
      [] filter = "duplicateFirst" ->
           IF items = <<>> THEN <<>> ELSE <<items[1]>> \o items
      [] OTHER -> items

\* intersect(): nothing when the raycaster is disabled; otherwise the raycast
\* result without duplicates, as raycaster.filter returns it if it is
\* defined, every hit with eventObject = object
intersect(enabled, filter, raw) ==
    IF ~enabled THEN <<>>
    ELSE LET intersects == ApplyFilter(filter, FilterSeen(raw, {}))
         IN  [i \in 1..Len(intersects) |->
                 [intersects[i] EXCEPT !.eventObject = intersects[i].object]]

\* isPointerEvent(event): 'pointerId' in event
isPointerEvent(pointerId) == pointerId # NoPointerId

\* patchIntersects, were it to push the captured intersection
patchIntersectsPush(intersections, pointerId, captured) ==
    IF isPointerEvent(pointerId) /\ captured[pointerId] # NoEntry
    THEN intersections \o <<captured[pointerId]>>
    ELSE intersections

\* patchIntersects(intersections, event)
patchIntersects(intersections, pointerId, captured) ==
    IF isPointerEvent(pointerId) /\ captured[pointerId] # NoEntry
    THEN <<captured[pointerId]>> \o intersections
    ELSE intersections

\* RoundSqrt, were the root truncated: Math.floor(Math.sqrt(n))
FloorSqrt(n) == CHOOSE k \in 0..n : k * k <= n /\ n < (k + 1) * (k + 1)

\* Math.round(Math.sqrt(n)) for a natural number n: the k with
\* (k - 1/2)^2 <= n < (k + 1/2)^2
RoundSqrt(n) ==
    CHOOSE k \in 0..(n + 1) :
        /\ (2 * k - 1) * (2 * k - 1) <= 4 * n \/ k = 0
        /\ 4 * n < (2 * k + 1) * (2 * k + 1)

\* calculateDistance(event)
calculateDistance(offset, click) ==
    LET dx == offset[1] - click[1]
        dy == offset[2] - click[2]
    IN  RoundSqrt(dx * dx + dy * dy)

(***************************************************************************)
(* The dispatcher.  While one event is processed the registry, the         *)
(* `stopped` flag of the bubble chain and the log of the invoked handlers  *)
(* are threaded through the operators as a record s:                       *)
(*   [mounted, interaction, hovered, capturedMap, capturedKeys,            *)
(*    initialHit, initialClick, stopped, calls].                           *)
(***************************************************************************)
Call(o, h, p) == [o |-> o, h |-> h, p |-> p]
\* event.target of the raw event: the canvas, whose native capture functions
\* are invoked
DomTarget == "domTarget"
\* the store, whose onPointerMissed is the canvas-level miss handler
Root == "root"

Log(s, c) == [s EXCEPT !.calls = Append(@, c)]

\* store.getState().internal as the dispatcher finds it, with an empty log
Registry ==
    [mounted |-> mounted, interaction |-> interaction, hovered |-> hovered,
     capturedMap |-> capturedMap, capturedKeys |-> capturedKeys,
     initialHit |-> initialHit, initialClick |-> initialClick,
     stopped |-> FALSE, calls |-> <<>>]

\* the registry an event left, as the next event finds it: its log is new
After(s) == [s EXCEPT !.calls = <<>>]

\* capturedMap.delete(pointerId): the entry and its key go
MapDelete(s, pointerId) ==
    [s EXCEPT !.capturedMap[pointerId] = NoEntry,
              !.capturedKeys = SelectSeq(@, LAMBDA k : k # pointerId)]

\* capturedMap.set(id, ...): a new key is added last, a key that is there
\* keeps its place
MapSet(s, id, hit) ==
    [s EXCEPT !.capturedMap[id] = hit,
              !.capturedKeys =
                  IF \E i \in 1..Len(@) : @[i] = id THEN @ ELSE Append(@, id)]

\* releaseInternalPointerCapture, were the requesting object not compared
releaseInternalPointerCaptureAnyObject(s, obj, pointerId) ==
    LET captureData == s.capturedMap[pointerId]
    IN  IF captureData = NoEntry THEN s
        ELSE Log(MapDelete(s, pointerId),
                 Call(DomTarget, "releasePointerCapture", pointerId))

\* releaseInternalPointerCapture(capturedMap, obj, captureData, pointerId)
releaseInternalPointerCapture(s, obj, pointerId) ==
    LET captureData == s.capturedMap[pointerId]
    IN  IF captureData = NoEntry THEN s
        ELSE IF obj = None \/ captureData.eventObject = obj
             THEN Log(MapDelete(s, pointerId),
                      Call(DomTarget, "releasePointerCapture", pointerId))
             ELSE s

\* setPointerCapture, were an existing capture of the pointer kept
setPointerCaptureIfFree(s, hit, id) ==
    IF s.capturedMap[id] # NoEntry
    THEN Log(s, Call(DomTarget, "setPointerCapture", id))
    ELSE Log([MapSet(s, id, hit) EXCEPT !.hovered[id] = hit],
             Call(DomTarget, "setPointerCapture", id))

\* the closure setPointerCapture(id) of the event synthesized for `hit`
setPointerCapture(s, hit, id) ==
    Log([MapSet(s, id, hit) EXCEPT !.hovered[id] = hit],
        Call(DomTarget, "setPointerCapture", id))

\* the closure releasePointerCapture(id) of the event synthesized for `hit`
releasePointerCapture(s, hit, id) ==
    releaseInternalPointerCapture(s, hit.eventObject, id)

\* stopPropagation, were it to leave the shared flag alone
stopPropagationNoFlag(s) == s

\* the closure stopPropagation() of a synthesized event
stopPropagation(s) == [s EXCEPT !.stopped = TRUE]

\* handlers.<h>?.(data): the handler h of the event's target, if defined,
\* is logged and does what the scene says it does
Invoke(s, hit, h, pointerId) ==
    LET o  == hit.eventObject
        s1 == Log(s, Call(o, h, pointerId))
        s2 == IF <<o, h>> \in SceneCaptures(scene) /\ isPointerEvent(pointerId)
              THEN setPointerCapture(s1, hit, pointerId) ELSE s1
        s3 == IF <<o, h>> \in SceneReleases(scene) /\ isPointerEvent(pointerId)
              THEN releasePointerCapture(s2, hit, pointerId) ELSE s2
        s4 == IF <<o, h>> \in SceneStops(scene)
              THEN stopPropagation(s3) ELSE s3
    IN  IF h \in Handlers(o) THEN s4 ELSE s

\* pointerMissed(event, objects)
RECURSIVE pointerMissed(_, _, _)
pointerMissed(s, objects, pointerId) ==
    IF objects = <<>> THEN s
    ELSE pointerMissed(
             IF "onPointerMissed" \in Handlers(Head(objects))
             THEN Log(s, Call(Head(objects), "onPointerMissed", pointerId))
             ELSE s,
             Tail(objects), pointerId)

\* LeaveChain, were onPointerLeave delivered before onPointerOut
RECURSIVE LeaveChainLeaveFirst(_, _, _, _)
LeaveChainLeaveFirst(s, hoveredEvent, eventObject, pointerId) ==
    IF eventObject = None THEN s
    ELSE LET data  == [hoveredEvent EXCEPT !.eventObject = eventObject]
             leave == Invoke(s, data, "onPointerLeave", pointerId)
         IN  LeaveChainLeaveFirst(Invoke(leave, data, "onPointerOut", pointerId),
                                  hoveredEvent, Parent(eventObject), pointerId)

\* the loop of cancelPointer over hoveredEvent.object and its ancestors
RECURSIVE LeaveChain(_, _, _, _)
LeaveChain(s, hoveredEvent, eventObject, pointerId) ==
    IF eventObject = None THEN s
    ELSE LET data == [hoveredEvent EXCEPT !.eventObject = eventObject]
             out  == Invoke(s, data, "onPointerOut", pointerId)
         IN  LeaveChain(Invoke(out, data, "onPointerLeave", pointerId),
                        hoveredEvent, Parent(eventObject), pointerId)

\* cancelPointer, were the hovered hit compared by its object alone
cancelPointerByObject(s, pointerId, hits) ==
    LET hoveredEvent == s.hovered[pointerId]
    IN  IF hoveredEvent = NoEntry THEN s
        ELSE IF hits = <<>> \/ hits[1].object # hoveredEvent.object
             THEN LeaveChain([s EXCEPT !.hovered[pointerId] = NoEntry],
                             hoveredEvent, hoveredEvent.object, pointerId)
             ELSE s

\* cancelPointer(pointerId, hits)
cancelPointer(s, pointerId, hits) ==
    LET hoveredEvent == s.hovered[pointerId]
    IN  IF hoveredEvent = NoEntry THEN s
        ELSE IF \/ hits = <<>>
                \/ hits[1].object # hoveredEvent.object
                \/ hits[1].index # hoveredEvent.index
                \/ hits[1].instanceId # hoveredEvent.instanceId
             THEN LeaveChain([s EXCEPT !.hovered[pointerId] = NoEntry],
                             hoveredEvent, hoveredEvent.object, pointerId)
             ELSE s

IsClickEvent(name) == name \in {"onClick", "onContextMenu", "onDoubleClick"}

\* NotAncestors, were the miss given to every registered object
NotAncestorsAll(s) == s.interaction

\* the objects pointerMissed is given when a handler fires
NotAncestors(s) ==
    SelectSeq(s.interaction, LAMBDA o : ~isAncestor(o, s.initialHit))

\* `name is no click event || internal.initialHit === data.object`: the
\* handler of a click-family event fires only on the object that was pressed
Forwarded(s, name, data) ==
    ~IsClickEvent(name) \/ s.initialHit = data.object

\* Book, were the hover entry written for every pointer
BookEveryPointer(s, data, eventPhase, pointerId) ==
    IF eventPhase = AT_TARGET
    THEN [s EXCEPT !.hovered = [p \in Pointers |-> data]]
    ELSE s

\* `if (data.eventPhase === data.AT_TARGET) internal.hovered.set(...)`
Book(s, data, eventPhase, pointerId) ==
    IF eventPhase = AT_TARGET
    THEN [s EXCEPT !.hovered[pointerId] = data]
    ELSE s

\* Callback, were onPointerOver and onPointerEnter given to the hit target
\* alone and not to its ancestors
CallbackOverAtTarget(s, data, eventPhase, name, pointerId, entering) ==
    IF EventCount(data.eventObject) = 0 THEN s
    ELSE IF name = "onPointerMove"
    THEN IF entering
         THEN IF eventPhase # AT_TARGET THEN s
              ELSE Invoke(Invoke(Book(s, data, eventPhase, pointerId),
                                 data, "onPointerOver", pointerId),
                          data, "onPointerEnter", pointerId)
         ELSE Invoke(s, data, "onPointerMove", pointerId)
    ELSE IF name \in Handlers(data.eventObject) /\ Forwarded(s, name, data)
         THEN Invoke(pointerMissed(s, NotAncestors(s), pointerId),
                     data, name, pointerId)
         ELSE s

\* the callback handlePointer gives to handleIntersects, for one target
Callback(s, data, eventPhase, name, pointerId, entering) ==
    IF EventCount(data.eventObject) = 0 THEN s
    ELSE IF name = "onPointerMove"
    THEN IF entering
         THEN Invoke(Invoke(Book(s, data, eventPhase, pointerId),
                            data, "onPointerOver", pointerId),
                     data, "onPointerEnter", pointerId)
         ELSE Invoke(s, data, "onPointerMove", pointerId)
    ELSE IF name \in Handlers(data.eventObject) /\ Forwarded(s, name, data)
         THEN Invoke(pointerMissed(s, NotAncestors(s), pointerId),
                     data, name, pointerId)
         ELSE s

\* NextTarget, were the walk to end at an ancestor without handlers
NextTargetEndsAtEmpty(hit) ==
    [hit EXCEPT !.eventObject =
        IF Parent(@) # None /\ EventCount(Parent(@)) = 0 THEN None
        ELSE Parent(@)]

\* the update of the for loop of handleIntersects: the same hit, delivered
\* to the parent of the target
NextTarget(hit) == [hit EXCEPT !.eventObject = Parent(hit.eventObject)]

\* Bubble, were the walk to end once another target holds the capture
RECURSIVE BubbleEndsAtCapture(_, _, _, _, _, _)
BubbleEndsAtCapture(s, hit, eventPhase, name, pointerId, entering) ==
    IF \/ hit.eventObject = None
       \/ s.stopped
       \/ /\ isPointerEvent(pointerId)
          /\ s.capturedMap[pointerId] # NoEntry
          /\ s.capturedMap[pointerId].eventObject # hit.eventObject
    THEN s
    ELSE BubbleEndsAtCapture(
             IF EventCount(hit.eventObject) = 0 THEN s
             ELSE Callback(s, hit, eventPhase, name, pointerId, entering),
             NextTarget(hit), BUBBLING_PHASE, name, pointerId, entering)

\* the for loop of handleIntersects, from `hit` upwards
RECURSIVE Bubble(_, _, _, _, _, _)
Bubble(s, hit, eventPhase, name, pointerId, entering) ==
    IF hit.eventObject = None \/ s.stopped THEN s
    ELSE Bubble(IF EventCount(hit.eventObject) = 0 THEN s
                ELSE Callback(s, hit, eventPhase, name, pointerId, entering),
                NextTarget(hit), BUBBLING_PHASE, name, pointerId, entering)

\* handleIntersects, were the second intersection dispatched as well
handleIntersectsEach(s, intersections, name, pointerId, entering) ==
    IF intersections = <<>> THEN s
    ELSE LET first == Bubble([s EXCEPT !.stopped = FALSE], intersections[1],
                             AT_TARGET, name, pointerId, entering)
         IN  IF Len(intersections) = 1 THEN first
             ELSE Bubble([first EXCEPT !.stopped = FALSE], intersections[2],
                         AT_TARGET, name, pointerId, entering)

\* handleIntersects(intersections, event, delta, callback)
handleIntersects(s, intersections, name, pointerId, entering) ==
    IF intersections = <<>> THEN s
    ELSE Bubble([s EXCEPT !.stopped = FALSE], intersections[1], AT_TARGET,
                name, pointerId, entering)

\* Hits, were the capture consulted only when the raycast hits nothing
HitsPatchedWhenEmpty(s, pointerId, enabled, filter, raw) ==
    IF intersect(enabled, filter, raw) = <<>>
    THEN patchIntersects(<<>>, pointerId, s.capturedMap)
    ELSE intersect(enabled, filter, raw)

\* the hits of the event: patchIntersects(intersect(), event)
Hits(s, pointerId, enabled, filter, raw) ==
    patchIntersects(intersect(enabled, filter, raw), pointerId,
                    s.capturedMap)

\* SavePress, were the press consumed by the click that follows it
SavePressConsumed(s, name, offset, hits) ==
    IF name = "onPointerDown"
    THEN [s EXCEPT !.initialClick = offset,
                   !.initialHit = IF hits = <<>> THEN None ELSE hits[1].object]
    ELSE IF IsClickEvent(name) /\ hits # <<>> /\ s.initialHit # hits[1].object
         THEN [s EXCEPT !.initialHit = None]
         ELSE s

\* `if (name === 'onPointerDown')` of handlePointer: the press is recorded
SavePress(s, name, offset, hits) ==
    IF name = "onPointerDown"
    THEN [s EXCEPT !.initialClick = offset,
                   !.initialHit = IF hits = <<>> THEN None ELSE hits[1].object]
    ELSE s

\* MissedClick, were the distance from the press not tested
MissedClickAnywhere(s, name, pointerId, offset, hits) ==
    IF IsClickEvent(name) /\ hits = <<>>
    THEN LET m == pointerMissed(s, s.interaction, pointerId)
         IN  IF SceneOnPointerMissed(scene)
             THEN Log(m, Call(Root, "onPointerMissed", pointerId))
             ELSE m
    ELSE s

\* `if (isClickEvent && !hits.length)` of handlePointer: a click on nothing
MissedClick(s, name, pointerId, offset, hits) ==
    IF IsClickEvent(name) /\ hits = <<>>
       /\ calculateDistance(offset, s.initialClick) <= 2
    THEN LET m == pointerMissed(s, s.interaction, pointerId)
         IN  IF SceneOnPointerMissed(scene)
             THEN Log(m, Call(Root, "onPointerMissed", pointerId))
             ELSE m
    ELSE s

\* Unhover, were it guarded by isPointerEvent(event) for isPointerMove
UnhoverAnyPointerEvent(s, name, pointerId, hits) ==
    IF isPointerEvent(pointerId) THEN cancelPointer(s, pointerId, hits) ELSE s

\* `if (isPointerMove)` of handlePointer: unhover, then isEnteringAndOrLeaving
Unhover(s, name, pointerId, hits) ==
    IF name = "onPointerMove" THEN cancelPointer(s, pointerId, hits) ELSE s

IsEnteringAndOrLeaving(s, name, pointerId, hits) ==
    /\ name = "onPointerMove"
    /\ s.hovered[pointerId].object
           # (IF hits = <<>> THEN None ELSE hits[1].object)

\* the handler handlePointer(name) returns for the raycast-based events:
\* the registry and the log after it has processed one event
handlePointer(s, name, pointerId, offset, enabled, filter, raw) ==
    LET hits    == Hits(s, pointerId, enabled, filter, raw)
        unhover == Unhover(MissedClick(SavePress(s, name, offset, hits),
                                       name, pointerId, offset, hits),
                           name, pointerId, hits)
    IN  handleIntersects(unhover, hits, name, pointerId,
                         IsEnteringAndOrLeaving(unhover, name, pointerId, hits))

\* handleCancel, were the hover entry kept
handleCancelKeepsEntry(s, pointerId) ==
    [cancelPointer(s, pointerId, <<>>) EXCEPT !.hovered = s.hovered]

\* the handler handlePointer('onPointerLeave' | 'onPointerCancel') returns
handleCancel(s, pointerId) == cancelPointer(s, pointerId, <<>>)

\* handleLostPointerCapture, were the hover entry dropped with the capture
handleLostPointerCaptureUnhover(s, pointerId) ==
    releaseInternalPointerCapture([s EXCEPT !.hovered[pointerId] = NoEntry],
                                  None, pointerId)

\* the handler handlePointer('onLostPointerCapture') returns
handleLostPointerCapture(s, pointerId) ==
    releaseInternalPointerCapture(s, None, pointerId)

\* ReleaseAll, were the forEach to end after the first entry
ReleaseFirst(s, object, ids) ==
    IF ids = <<>> THEN s
    ELSE releaseInternalPointerCapture(s, object, Head(ids))

\* the forEach of removeInteractivity over capturedMap
RECURSIVE ReleaseAll(_, _, _)
ReleaseAll(s, object, ids) ==
    IF ids = <<>> THEN s
    ELSE ReleaseAll(releaseInternalPointerCapture(s, object, Head(ids)),
                    object, Tail(ids))

\* the forEach of removeInteractivity over hovered
PurgeHovered(hov, object) ==
    [p \in Pointers |->
        IF hov[p].eventObject = object \/ hov[p].object = object
        THEN NoEntry ELSE hov[p]]

\* removeInteractivity, were every capture released whatever its target
removeInteractivityReleasesAll(s, object) ==
    ReleaseAll(
        [s EXCEPT !.interaction = SelectSeq(@, LAMBDA o : o # object),
                  !.initialHit = IF @ = object THEN None ELSE @,
                  !.hovered = PurgeHovered(@, object)],
        None, s.capturedKeys)

\* removeInteractivity(store, object): the forEach over capturedMap visits
\* the entries in the order of their insertion
removeInteractivity(s, object) ==
    ReleaseAll(
        [s EXCEPT !.interaction = SelectSeq(@, LAMBDA o : o # object),
                  !.initialHit = IF @ = object THEN None ELSE @,
                  !.hovered = PurgeHovered(@, object)],
        object, s.capturedKeys)

\* the renderer detaches the object from the scene graph, which is what
\* makes it call removeInteractivity
unmount(s, object) == [s EXCEPT !.mounted = @ \ {object}]

(***************************************************************************)
(* Inputs: the raw events.                                                 *)
(***************************************************************************)
Coord == 0..MaxCoord
\* where a press lands
PressOffsets == {<<MaxCoord, 0>>}
\* where a click lands
ClickOffsets == {off \in Coord \X Coord : off[1] \in {0, MaxCoord}}

\* the objects raycaster.intersectObjects(interaction, true) can return: the
\* mounted geometry at or below a registered object
Candidates(s) ==
    {o \in Geometry \cap s.mounted :
        \E i \in 1..Len(s.interaction) : isAncestor(s.interaction[i], o)}
\* a raycast hit has no eventObject yet
RawHits(s) ==
    UNION {{Hit(o, None, i[1], i[2]) : i \in HitInstances(scene, o)} :
              o \in Candidates(s)}
RawLists(s) ==
    UNION {[1..n -> RawHits(s)] : n \in 0..MaxRawHits}
\* one raycast: the raycaster is enabled and returns a list, or it is
\* disabled (raycaster.enabled = false) and what it would return is not read
Rays(s) ==
    {[enabled |-> TRUE, filter |-> f, raw |-> r] :
        f \in SceneFilters(scene), r \in RawLists(s)}
        \cup {[enabled |-> FALSE, filter |-> NoFilter, raw |-> r] :
                 r \in {r \in RawLists(s) : Len(r) = 1}}
NoRay == [enabled |-> FALSE, filter |-> NoFilter, raw |-> <<>>]

Event(name, pointerId, offset, ray, object) ==
    [name |-> name, pointerId |-> pointerId, offset |-> offset,
     enabled |-> ray.enabled, filter |-> ray.filter, raw |-> ray.raw,
     object |-> object]

DownEvents(s) ==
    {Event("onPointerDown", p, off, ray, None) :
        p \in Pointers, off \in PressOffsets, ray \in Rays(s)}
UpEvents(s) ==
    {Event("onPointerUp", p, <<0, 0>>, ray, None) :
        p \in Pointers, ray \in Rays(s)}
MoveEvents(s) ==
    {Event("onPointerMove", p, <<0, 0>>, ray, None) :
        p \in Pointers, ray \in Rays(s)}
\* the rays that hit nothing: the raycaster returns no hit, or is disabled
EmptyRays(s) ==
    {ray \in Rays(s) : intersect(ray.enabled, ray.filter, ray.raw) = <<>>}
\* click may be delivered as a PointerEvent (with a pointerId) or as a
\* MouseEvent (without), contextmenu and dblclick as MouseEvents; where the
\* click lands matters when it hits nothing
ClickInputs(s) ==
    (PressOffsets \X Rays(s)) \cup (ClickOffsets \X EmptyRays(s))
ClickEvents(s) ==
    {Event("onClick", p, in[1], in[2], None) :
        p \in Pointers \cup {NoPointerId}, in \in ClickInputs(s)}
      \cup {Event(name, NoPointerId, in[1], in[2], None) :
               name \in {"onContextMenu", "onDoubleClick"},
               in \in ClickInputs(s)}
\* a WheelEvent has no pointerId
WheelEvents(s) ==
    {Event("onWheel", NoPointerId, <<0, 0>>, ray, None) : ray \in Rays(s)}
LeaveEvents ==
    {Event(name, p, <<0, 0>>, NoRay, None) :
        name \in {"onPointerLeave", "onPointerCancel"}, p \in Pointers}
LostEvents ==
    {Event("onLostPointerCapture", p, <<0, 0>>, NoRay, None) : p \in Pointers}
\* the renderer unmounts an object and calls removeInteractivity for it
Removals(s) ==
    {Event("removeInteractivity", NoPointerId, <<0, 0>>, NoRay, o) :
        o \in Geometry \cap s.mounted}

RaycastEvents(s) ==
    DownEvents(s) \cup UpEvents(s) \cup MoveEvents(s) \cup ClickEvents(s)
        \cup WheelEvents(s)
Events(s) == RaycastEvents(s) \cup LeaveEvents \cup LostEvents \cup Removals(s)

\* what the listener of event e (or the call e) makes of the registry s
Handle(s, e) ==
    CASE e.name \in {"onPointerLeave", "onPointerCancel"} ->
           handleCancel(s, e.pointerId)
      [] e.name = "onLostPointerCapture" ->
           handleLostPointerCapture(s, e.pointerId)
      [] e.name = "removeInteractivity" ->
           removeInteractivity(unmount(s, e.object), e.object)
      [] OTHER ->
           handlePointer(s, e.name, e.pointerId, e.offset, e.enabled, e.filter,
                         e.raw)

\* no walk is under way
NoWalk ==
    [kind |-> "none", parent |-> <<>>, at |-> None, ancestor |-> None,
     running |-> FALSE]

RECURSIVE Registered(_)
\* the objects that define a handler, which the renderer registered
Registered(order) ==
    IF order = <<>> THEN <<>>
    ELSE (IF EventCount(Head(order)) > 0 THEN <<Head(order)>> ELSE <<>>)
             \o Registered(Tail(order))

Init ==
    /\ scene \in Scenes
    /\ mounted = Objects
    /\ interaction = Registered(<<"G", "H", "A", "B">>)
    /\ hovered = [p \in Pointers |-> NoEntry]
    /\ capturedMap = [p \in Pointers |-> NoEntry]
    /\ capturedKeys = <<>>
    /\ initialHit = None
    /\ initialClick = <<0, 0>>
    /\ paired = [p \in Pointers |-> {}]
    /\ clean = [p \in Pointers |-> FALSE]
    /\ walk = NoWalk

(***************************************************************************)
(* Actions: one raw event, or one call of removeInteractivity, each.       *)
(***************************************************************************)
\* the registry is what the event left
Store(s) ==
    /\ mounted' = s.mounted
    /\ interaction' = s.interaction
    /\ hovered' = s.hovered
    /\ capturedMap' = s.capturedMap
    /\ capturedKeys' = s.capturedKeys
    /\ initialHit' = s.initialHit
    /\ initialClick' = s.initialClick
    /\ UNCHANGED <<scene, paired, clean, walk>>

PointerDown == \E e \in DownEvents(Registry) : Store(Handle(Registry, e))

PointerUp == \E e \in UpEvents(Registry) : Store(Handle(Registry, e))

PointerMove == \E e \in MoveEvents(Registry) : Store(Handle(Registry, e))

Click == \E e \in ClickEvents(Registry) : Store(Handle(Registry, e))

Wheel == \E e \in WheelEvents(Registry) : Store(Handle(Registry, e))

PointerLeave == \E e \in LeaveEvents : Store(Handle(Registry, e))

LostPointerCapture == \E e \in LostEvents : Store(Handle(Registry, e))

RemoveInteractivity ==
    \E e \in Removals(Registry) : Store(Handle(Registry, e))

Next ==
    \/ PointerDown
    \/ PointerUp
    \/ PointerMove
    \/ Click
    \/ Wheel
    \/ PointerLeave
    \/ LostPointerCapture
    \/ RemoveInteractivity

Spec == Init /\ [][Next]_vars

(***************************************************************************)
(* Vocabulary of the properties.                                           *)
(***************************************************************************)
\* an object and its ancestors, child first
RECURSIVE ChainOf(_)
ChainOf(o) == IF o = None THEN <<>> ELSE <<o>> \o ChainOf(Parent(o))

\* the objects of a sequence that define handler h
Defining(objects, h) == SelectSeq(objects, LAMBDA o : h \in Handlers(o))

\* the objects on which handler h was invoked, in order
Targets(r, h) ==
    LET f == SelectSeq(r.calls, LAMBDA c : c.h = h)
    IN  [i \in 1..Len(f) |-> f[i].o]

\* how often handler h was invoked on object o
Count(r, o, h) == Cardinality({i \in 1..Len(r.calls) : r.calls[i] .o = o /\ r.calls[i].h = h})

\* the intersection list of event e in registry s
HitsOf(s, e) == Hits(s, e.pointerId, e.enabled, e.filter, e.raw)

\* a handler that calls stopPropagation was invoked
StopCalled(r) ==
    \E i \in 1..Len(r.calls) : <<r.calls[i].o, r.calls[i].h>> \in SceneStops(scene)

\* the handlers a bubbling dispatch of event `name` invokes on a target
BubbleHandlers(name) ==
    IF name = "onPointerMove"
    THEN {"onPointerOver", "onPointerEnter", "onPointerMove"}
    ELSE {name}

\* the object event e has as its top hit, None when it hits nothing
TopObject(s, e) ==
    IF HitsOf(s, e) = <<>> THEN None ELSE HitsOf(s, e)[1].object

(***************************************************************************)
(* C1, as stated: a dispatch of a non-move event with a non-empty          *)
(* intersection list in which no handler stops propagation invokes the     *)
(* handler of that kind exactly once on the top hit's object, if it        *)
(* defines one, and then exactly once on every strict ancestor that        *)
(* defines one, child to parent, and on no other object.                   *)
(***************************************************************************)
C1_Original ==
    \A e \in RaycastEvents(Registry) :
        LET hits == HitsOf(Registry, e)
            r    == Handle(Registry, e)
        IN  (e.name # "onPointerMove" /\ hits # <<>> /\ ~StopCalled(r))
            => Targets(r, e.name)
                   = Defining(ChainOf(hits[1].object), e.name)

(***************************************************************************)
(* C1, amended: a dispatch of a non-move event (of a click-family event    *)
(* only when the object of the last press is the top hit's object) with a  *)
(* non-empty intersection list in which no handler stops propagation       *)
(* invokes the handler of that kind exactly once on the top hit's event    *)
(* target (the hit object or, for a captured intersection, the capture     *)
(* target), if it defines one, and then exactly once on every strict       *)
(* ancestor of it that defines one, child to parent; ancestors without     *)
(* handlers are passed over, and no object outside the chain is invoked.   *)
(***************************************************************************)
C1_BubblesChildToParent ==
    \A e \in RaycastEvents(Registry) :
      \A r \in {Handle(Registry, e)} :
        LET hits == HitsOf(Registry, e)
        IN  (/\ e.name # "onPointerMove"
             /\ hits # <<>>
             /\ ~StopCalled(r)
             /\ IsClickEvent(e.name) => initialHit = hits[1].object)
            => Targets(r, e.name)
                   = Defining(ChainOf(hits[1].eventObject), e.name)

\* a press on A was dispatched, and a press on A goes to A and then to G,
\* past H, which defines no handler; so does a click on A, while a click on
\* B, which defines onClick, invokes nothing
C1_Witness ==
    /\ initialHit = "A"
    /\ EventCount("H") = 0
    /\ \E e \in DownEvents(Registry) :
          /\ TopObject(Registry, e) = "A"
          /\ Targets(Handle(Registry, e), "onPointerDown") = <<"A", "G">>
    /\ \E e \in ClickEvents(Registry) :
          /\ TopObject(Registry, e) = "A"
          /\ Targets(Handle(Registry, e), "onClick") = <<"A", "G">>
    /\ \E e \in ClickEvents(Registry) :
          /\ TopObject(Registry, e) = "B" /\ e.name = "onClick"
          /\ "onClick" \in Handlers("B")
          /\ Handle(Registry, e).calls = <<>>

(***************************************************************************)
(* C2: when a handler of the target at depth k of the bubble chain calls   *)
(* stopPropagation, no handler of the event is invoked on a target above   *)
(* depth k, every handler of the event that the target at depth k defines  *)
(* is still invoked (onPointerEnter after onPointerOver), and the          *)
(* dispatch that follows is not stopped: it reaches every target of its    *)
(* chain unless one of its own handlers stops it (the dispatch that        *)
(* follows is a move or a release, after a raycast of at most one hit).    *)
(***************************************************************************)
\* a dispatch that nothing stops reaches every target of its chain
Reached(s, e, r) ==
    LET chain == ChainOf(HitsOf(s, e)[1].eventObject)
        to(h) == Defining(chain, h)
    IN  IF e.name = "onPointerMove"
        THEN \/ /\ Targets(r, "onPointerMove") = to("onPointerMove")
                /\ Targets(r, "onPointerOver") = <<>>
                /\ Targets(r, "onPointerEnter") = <<>>
             \/ /\ Targets(r, "onPointerMove") = <<>>
                /\ Targets(r, "onPointerOver") = to("onPointerOver")
                /\ Targets(r, "onPointerEnter") = to("onPointerEnter")
        ELSE Targets(r, e.name) = to(e.name)

\* the depth of the first target of the chain on which a handler of the
\* event that calls stopPropagation was invoked
StopDepth(chain, name, r) ==
    LET stops(i) == \E h \in BubbleHandlers(name) :
                        /\ <<chain[i], h>> \in SceneStops(scene)
                        /\ Count(r, chain[i], h) > 0
    IN  CHOOSE i \in 1..Len(chain) :
            stops(i) /\ \A j \in 1..(i - 1) : ~stops(j)

\* the moves and releases whose raycast returns at most one hit
NextEvents(s) ==
    {e \in MoveEvents(s) \cup UpEvents(s) : Len(e.raw) <= 1}

C2_StopPropagation ==
    \A e \in RaycastEvents(Registry) :
      \A r \in {Handle(Registry, e)} :
        LET chain == ChainOf(HitsOf(Registry, e)[1].eventObject)
            k     == StopDepth(chain, e.name, r)
            own   == BubbleHandlers(e.name) \cap Handlers(chain[k])
        IN  StopCalled(r) =>
              /\ \A j \in (k + 1)..Len(chain), h \in BubbleHandlers(e.name) :
                    Count(r, chain[j], h) = 0
              /\ \A h \in own :
                    Count(r, chain[k], h) > 0
                        => \A g \in own :
                               (g = "onPointerMove") = (h = "onPointerMove")
                                   => Count(r, chain[k], g) = 1
              /\ Len(e.raw) <= 1 => \A e2 \in NextEvents(After(r)) :
                    LET r2 == Handle(After(r), e2)
                    IN  (HitsOf(After(r), e2) # <<>> /\ ~StopCalled(r2))
                            => Reached(After(r), e2, r2)

\* the last press went to A and was stopped at H, below G, which defines
\* the handler too; H stops an entering move after onPointerOver and is
\* still given onPointerEnter
C2_Witness ==
    /\ scene = "stop"
    /\ initialHit = "A"
    /\ \E e \in DownEvents(Registry) :
          Targets(Handle(Registry, e), "onPointerDown") = <<"A", "H">>
    /\ \E e \in MoveEvents(Registry) :
          /\ Targets(Handle(Registry, e), "onPointerOver") = <<"A", "H">>
          /\ Targets(Handle(Registry, e), "onPointerEnter") = <<"A", "H">>
    /\ \E e \in MoveEvents(Registry) :
          Targets(Handle(Registry, e), "onPointerMove") = <<"A", "H", "G">>

(***************************************************************************)
(* C3: while object A holds the capture of pointer P, a pointer-move of P  *)
(* delivers onPointerMove only to A and its ancestors, never to another    *)
(* object the raycast hits, and no onPointerLeave or onPointerOut to A.    *)
(***************************************************************************)
C3_CaptureRoutesMoves ==
    \A e \in MoveEvents(Registry) :
        LET r == Handle(Registry, e)
            a == capturedMap[e.pointerId].eventObject
        IN  capturedMap[e.pointerId] # NoEntry =>
              \A i \in 1..Len(r.calls) :
                  /\ r.calls[i].h = "onPointerMove" => isAncestor(r.calls[i].o, a)
                  /\ r.calls[i].h \in {"onPointerLeave", "onPointerOut"}
                        => r.calls[i].o # a

\* A has captured p1, the ray hits only B, and the move goes to A and G
C3_Witness ==
    /\ capturedMap["p1"].eventObject = "A"
    /\ \E e \in MoveEvents(Registry) :
          /\ e.pointerId = "p1"
          /\ e.enabled /\ Len(e.raw) = 1 /\ e.raw[1].object = "B"
          /\ "onPointerMove" \in Handlers("B")
          /\ Targets(Handle(Registry, e), "onPointerMove") = <<"A", "G">>

(***************************************************************************)
(* C4, as stated: whenever pointer P has a capture entry, the intersection *)
(* list of the next raycast-based event of any kind (move, down, up,       *)
(* click, wheel) begins with the captured intersection, also when the      *)
(* raycast hits nothing.  An event that carries no pointer id, as a wheel  *)
(* event, is an event of the pointer that is captured.                     *)
(***************************************************************************)
C4_Original ==
    \A e \in RaycastEvents(Registry), p \in Pointers :
        (capturedMap[p] # NoEntry /\ e.pointerId \in {p, NoPointerId})
            => /\ HitsOf(Registry, e) # <<>>
               /\ HitsOf(Registry, e)[1] = capturedMap[p]

(***************************************************************************)
(* C4, amended: whenever pointer P has a capture entry, the intersection   *)
(* list of the next raycast-based event that carries P's pointer id (move, *)
(* down, up, or a click delivered as a PointerEvent) begins with the       *)
(* captured intersection, also when the raycast hits nothing; an event     *)
(* that carries no pointer id (wheel, and a click-family event delivered   *)
(* as a MouseEvent) is given the result of the raycast and no captured     *)
(* intersection.                                                           *)
(***************************************************************************)
C4_CaptureFirst ==
    \A e \in RaycastEvents(Registry) :
        IF e.pointerId \in Pointers
        THEN capturedMap[e.pointerId] # NoEntry
               => /\ HitsOf(Registry, e) # <<>>
                  /\ HitsOf(Registry, e)[1] = capturedMap[e.pointerId]
                  /\ Len(HitsOf(Registry, e))
                        = 1 + Len(intersect(e.enabled, e.filter, e.raw))
        ELSE \A i \in 1..Len(HitsOf(Registry, e)) :
                 /\ \E j \in 1..Len(e.raw) :
                       HitsOf(Registry, e)[i].object = e.raw[j].object
                 /\ HitsOf(Registry, e)[i].eventObject
                       = HitsOf(Registry, e)[i].object

\* p2 is captured; a click of p2 whose raycast hits B, and a pointer-up of
\* p2 whose raycast hits nothing, both begin with the captured intersection,
\* and a wheel event whose raycast hits B begins with B
C4_Witness ==
    /\ capturedMap["p2"] # NoEntry
    /\ \E e \in ClickEvents(Registry) :
          /\ e.pointerId = "p2" /\ e.enabled /\ e.raw # <<>>
          /\ e.raw[1].object = "B"
          /\ Len(HitsOf(Registry, e)) = 2
    /\ \E e \in UpEvents(Registry) :
          /\ e.pointerId = "p2" /\ e.raw = <<>>
          /\ HitsOf(Registry, e) = <<capturedMap["p2"]>>
    /\ \E e \in WheelEvents(Registry) :
          /\ e.enabled /\ e.raw # <<>>
          /\ HitsOf(Registry, e)[1].object = "B"

(***************************************************************************)
(* C5: a click-family event whose top hit defines the handler invokes it   *)
(* if and only if the object of the last press is the top hit's object,    *)
(* and when the two differ the missed notification is delivered to the     *)
(* registered objects that are not ancestors of the initial hit.  The      *)
(* dispatcher does the first and not the second: the only pointerMissed    *)
(* call for a non-empty hit list is in the branch that fires the handler,  *)
(* so a click on another object than the pressed one invokes nothing.      *)
(***************************************************************************)
\* the registered objects with onPointerMissed that are no ancestor of (and
\* not) the initial hit
Missed ==
    Defining(SelectSeq(interaction, LAMBDA o : ~isAncestor(o, initialHit)),
             "onPointerMissed")

C5_ClickResolution ==
    \A e \in ClickEvents(Registry) :
        LET hits == HitsOf(Registry, e)
            r    == Handle(Registry, e)
        IN  (/\ initialHit # None
             /\ hits # <<>>
             /\ e.name \in Handlers(hits[1].eventObject))
            => /\ (Count(r, hits[1].eventObject, e.name) > 0)
                      <=> (initialHit = hits[1].object)
               /\ initialHit # hits[1].object
                     => Targets(r, "onPointerMissed") = Missed

(***************************************************************************)
(* C6: two consecutive moves of one pointer that holds no capture.  What   *)
(* a move does depends on the top hit alone, so the two moves are taken    *)
(* from those whose raycast returns at most one hit.                       *)
(***************************************************************************)
\* the moves whose raycast returns at most one hit
ShortMoves(s, p) ==
    {e \in MoveEvents(s) : e.pointerId = p /\ Len(e.raw) <= 1}

\* two hit lists have the same top hit: object, index and instanceId
SameTop(h1, h2) ==
    /\ h1 # <<>> /\ h2 # <<>>
    /\ h1[1].object = h2[1].object
    /\ h1[1].index = h2[1].index
    /\ h1[1].instanceId = h2[1].instanceId

HoverHandlers == {"onPointerOver", "onPointerMove", "onPointerOut"}

\* the moves m1 and then m2 of pointer p, for an object x that defines
\* over, move and out handlers; `same` tells whether the run of m1 goes on
\* with m2
Runs(s, m1, m2, x, same) ==
    LET r1 == Handle(s, m1)
        r2 == Handle(After(r1), m2)
        t1 == TopObject(s, m1)
        t2 == TopObject(After(r1), m2)
    IN  /\ (t2 = x /\ ~same)
              => Count(r2, x, "onPointerOver") = 1
                    /\ Count(r2, x, "onPointerMove") = 0
        /\ (t2 = x /\ same)
              => Count(r2, x, "onPointerMove") = 1
                    /\ Count(r2, x, "onPointerOver") = 0
                    /\ Count(r2, x, "onPointerOut") = 0
        /\ (t1 = x /\ ~same) => Count(r2, x, "onPointerOut") = 1
        /\ (~isAncestor(x, t1) /\ ~isAncestor(x, t2)) =>
              \A h \in HoverHandlers : Count(r2, x, h) = 0

(***************************************************************************)
(* C6, as stated: an object with over, move and out handlers receives      *)
(* onPointerOver once on the first move of each maximal run of moves in    *)
(* which it is the top hit, onPointerMove and no onPointerOver on every    *)
(* later move of the run, and onPointerOut once on the move that ends the  *)
(* run; a move that hits nothing while nothing is hovered invokes nothing. *)
(***************************************************************************)
C6_Original ==
    \A p \in Pointers :
        capturedMap[p] = NoEntry =>
            /\ \A m1 \in ShortMoves(Registry, p) :
                    \A m2 \in ShortMoves(After(Handle(Registry, m1)), p) :
                        \A x \in Objects :
                            HoverHandlers \subseteq Handlers(x) =>
                                Runs(Registry, m1, m2, x,
                                     TopObject(Registry, m1)
                                       = TopObject(After(Handle(Registry, m1)),
                                                   m2))
            /\ \A m \in MoveEvents(Registry) :
                  (m.pointerId = p /\ hovered[p] = NoEntry
                      /\ HitsOf(Registry, m) = <<>>)
                    => Handle(Registry, m).calls = <<>>

(***************************************************************************)
(* C6, amended: as stated, with a run being the consecutive moves in which *)
(* the object is the top hit with the same index and instanceId: a move    *)
(* whose top hit is the same object with another index or instanceId ends  *)
(* the run (onPointerOut) and begins the next (onPointerOver).             *)
(***************************************************************************)
C6_HoverRuns ==
    \A p \in Pointers :
        capturedMap[p] = NoEntry =>
            /\ \A m1 \in ShortMoves(Registry, p) :
                    \A m2 \in ShortMoves(After(Handle(Registry, m1)), p) :
                        \A x \in Objects :
                            HoverHandlers \subseteq Handlers(x) =>
                                Runs(Registry, m1, m2, x,
                                     SameTop(HitsOf(Registry, m1),
                                             HitsOf(After(Handle(Registry, m1)),
                                                    m2)))
            /\ \A m \in MoveEvents(Registry) :
                  (m.pointerId = p /\ hovered[p] = NoEntry
                      /\ HitsOf(Registry, m) = <<>>)
                    => Handle(Registry, m).calls = <<>>

\* p1 hovers the point cloud A at index 0 after a move: the next move on A
\* at index 0 gives A onPointerMove, one at index 1 gives A onPointerOut
\* and then onPointerOver, and one that hits nothing gives A onPointerOut
C6_Witness ==
    /\ HoverHandlers \subseteq Handlers("A")
    /\ capturedMap["p1"] = NoEntry
    /\ hovered["p1"] = Hit("A", "A", 0, Undef)
    /\ \E m \in ShortMoves(Registry, "p1") :
          /\ SameTop(HitsOf(Registry, m), <<hovered["p1"]>>)
          /\ Handle(Registry, m).calls = <<Call("A", "onPointerMove", "p1")>>
    /\ \E m \in ShortMoves(Registry, "p1") :
          /\ TopObject(Registry, m) = "A"
          /\ HitsOf(Registry, m)[1].index = 1
          /\ Count(Handle(Registry, m), "A", "onPointerOut") = 1
          /\ Count(Handle(Registry, m), "A", "onPointerOver") = 1
    /\ \E m \in ShortMoves(Registry, "p1") :
          /\ HitsOf(Registry, m) = <<>>
          /\ Handle(Registry, m).calls = <<Call("A", "onPointerOut", "p1")>>

(***************************************************************************)
(* C7: removeInteractivity(A) removes A from the interaction set, deletes  *)
(* every hover entry A holds and every capture whose target is A, and      *)
(* invokes the native releasePointerCapture exactly once for each such     *)
(* capture; the event that follows for a pointer whose hover A held gives  *)
(* A no onPointerOut or onPointerLeave, the event that follows for a       *)
(* pointer A had captured invokes no handler of A, and once no entry       *)
(* refers to an unmounted object no event invokes a handler of it.         *)
(***************************************************************************)
\* object o holds the hover entry of pointer p in registry s
HoldsHover(s, o, p) ==
    s.hovered[p].object = o \/ s.hovered[p].eventObject = o

\* how often the native releasePointerCapture(p) was invoked
Released(r, p) ==
    Cardinality({i \in 1..Len(r.calls) :
        r.calls[i] = Call(DomTarget, "releasePointerCapture", p)})

\* no handler of object o was invoked
Silent(r, o) == \A i \in 1..Len(r.calls) : r.calls[i].o # o

C7_RemovalPurges ==
    /\ \A e \in Removals(Registry) :
          LET r == Handle(Registry, e)
              a == e.object
          IN  /\ \A i \in 1..Len(r.interaction) : r.interaction[i] # a
              /\ \A p \in Pointers :
                    /\ HoldsHover(Registry, a, p) =>
                          /\ r.hovered[p] = NoEntry
                          /\ \A e2 \in Events(After(r)) :
                                e2.pointerId = p =>
                                    LET r2 == Handle(After(r), e2)
                                    IN  /\ Count(r2, a, "onPointerOut") = 0
                                        /\ Count(r2, a, "onPointerLeave") = 0
                    /\ capturedMap[p].eventObject = a =>
                          /\ r.capturedMap[p] = NoEntry
                          /\ Released(r, p) = 1
                          /\ \A e2 \in Events(After(r)) :
                                e2.pointerId = p =>
                                    Silent(Handle(After(r), e2), a)
                    /\ capturedMap[p].eventObject # a => Released(r, p) = 0
    /\ \A a \in Objects \ mounted :
          (\A p \in Pointers :
              ~HoldsHover(Registry, a, p) /\ capturedMap[p].object # a)
            => \A e \in Events(Registry) : Silent(Handle(Registry, e), a)

\* A holds the hover entry of p1 and the capture of p2, and its removal
\* releases p2 once; A had captured p2 in a press, the last one
C7_Witness ==
    /\ "A" \in mounted
    /\ initialHit = "A"
    /\ hovered["p1"].eventObject = "A"
    /\ capturedMap["p1"] = NoEntry
    /\ capturedMap["p2"].eventObject = "A"
    /\ \E e \in Removals(Registry) :
          /\ e.object = "A"
          /\ Handle(Registry, e).calls
                = <<Call(DomTarget, "releasePointerCapture", "p2")>>
          /\ Handle(Registry, e).hovered["p1"] = NoEntry

(***************************************************************************)
(* C8, as stated: a hover entry is created only by a pointer-move whose    *)
(* top hit differs from the previously hovered hit, and deleted only by a  *)
(* move whose top hit differs from the stored entry, by a pointer-leave or *)
(* pointer-cancel, or by the removal of the hovered object.                *)
(***************************************************************************)
\* event e of registry s is a move of pointer p whose top hit is not the
\* hit stored as p's hover entry
DiffersMove(s, e, p) ==
    /\ e.name = "onPointerMove" /\ e.pointerId = p
    /\ ~SameTop(HitsOf(s, e), <<s.hovered[p]>>)

\* what may delete the hover entry of pointer p
Deletes(s, e, p) ==
    \/ DiffersMove(s, e, p)
    \/ e.name \in {"onPointerLeave", "onPointerCancel"} /\ e.pointerId = p
    \/ e.name = "removeInteractivity" /\ HoldsHover(s, e.object, p)

\* a move books its top hit
CreatesByMove(s, e, p, r) ==
    /\ DiffersMove(s, e, p)
    /\ HitsOf(s, e) # <<>>
    /\ r.hovered[p] = HitsOf(s, e)[1]

\* a handler called setPointerCapture(p), which books the event it was given
CreatesByCapture(e, p, r) ==
    /\ e.pointerId = p
    /\ \E i \in 1..Len(r.calls) :
          r.calls[i] = Call(DomTarget, "setPointerCapture", p)
    /\ r.hovered[p] = r.capturedMap[p]

C8_Original ==
    \A e \in Events(Registry) :
        LET r == Handle(Registry, e)
        IN  \A p \in Pointers :
            /\ r.hovered[p] \notin {NoEntry, hovered[p]}
                  => CreatesByMove(Registry, e, p, r)
            /\ (hovered[p] # NoEntry /\ r.hovered[p] = NoEntry)
                  => Deletes(Registry, e, p)

(***************************************************************************)
(* C8, amended: a hover entry is created only by a pointer-move whose top  *)
(* hit differs from the previously hovered hit, or by a handler that calls *)
(* setPointerCapture for the pointer, which stores the event the handler   *)
(* was given as the pointer's hover entry; it is deleted only by a move    *)
(* whose top hit differs from the stored entry, by a pointer-leave or      *)
(* pointer-cancel, or by the removal of the hovered object.                *)
(***************************************************************************)
C8_HoverTransitions ==
    \A e \in Events(Registry) :
        \A r \in {Handle(Registry, e)} :
            \A p \in Pointers :
            /\ r.hovered[p] \notin {NoEntry, hovered[p]}
                  => \/ CreatesByMove(Registry, e, p, r)
                     \/ CreatesByCapture(e, p, r)
            /\ (hovered[p] # NoEntry /\ r.hovered[p] = NoEntry)
                  => Deletes(Registry, e, p)

\* p1 hovers A without having moved over it: A captured p1 in a press, and
\* p1 was idle before, as p2 is now; a press of p2 on A makes p2 hover A,
\* and a move of p2 does, too
C8_Witness ==
    /\ hovered["p1"] = capturedMap["p1"]
    /\ hovered["p1"].eventObject = "A"
    /\ hovered["p2"] = NoEntry
    /\ \E e \in DownEvents(Registry) :
          /\ e.pointerId = "p2"
          /\ Handle(Registry, e).hovered["p2"].eventObject = "A"
    /\ \E e \in MoveEvents(Registry) :
          /\ e.pointerId = "p2"
          /\ Handle(Registry, e).hovered["p2"].eventObject = "B"
    /\ \E e \in LeaveEvents :
          /\ e.pointerId = "p1"
          /\ Handle(Registry, e).hovered["p1"] = NoEntry

(***************************************************************************)
(* C9: a click-family event with no intersection delivers the missed       *)
(* notification once to every registered object that defines               *)
(* onPointerMissed, in registration order, and then once to the            *)
(* scene-level onPointerMissed, if and only if its distance from the       *)
(* position of the last press, rounded, is at most 2 pixels: the distance  *)
(* d rounds to at most 2 iff d < 5/2 iff 4 d^2 < 25.  No click handler is  *)
(* invoked.                                                                *)
(***************************************************************************)
C9_MissedClick ==
    \A e \in ClickEvents(Registry) :
        LET r    == Handle(Registry, e)
            dx   == e.offset[1] - initialClick[1]
            dy   == e.offset[2] - initialClick[2]
            to   == Defining(interaction, "onPointerMissed")
            root == IF SceneOnPointerMissed(scene) THEN <<Root>> ELSE <<>>
        IN  HitsOf(Registry, e) = <<>> =>
              IF 4 * (dx * dx + dy * dy) < 25
              THEN r.calls = [i \in 1..Len(to \o root) |->
                                 Call((to \o root)[i], "onPointerMissed",
                                      e.pointerId)]
              ELSE r.calls = <<>>

\* the last press was at (MaxCoord, 0) and on nothing: a click on nothing at
\* (MaxCoord, 2), 2 pixels away, is a miss for the registered objects and the
\* scene, one at (0, MaxCoord) is none
C9_Witness ==
    /\ initialClick = <<MaxCoord, 0>>
    /\ initialHit = None
    /\ SceneOnPointerMissed(scene)
    /\ \E e \in ClickEvents(Registry) :
          /\ e.offset = <<MaxCoord, 2>>
          /\ HitsOf(Registry, e) = <<>>
          /\ Len(Handle(Registry, e).calls) > 1
          /\ Handle(Registry, e).calls[Len(Handle(Registry, e).calls)].o = Root
    /\ \E e \in ClickEvents(Registry) :
          /\ e.offset = <<0, MaxCoord>>
          /\ HitsOf(Registry, e) = <<>>
          /\ Handle(Registry, e).calls = <<>>

(***************************************************************************)
(* C10: when the press and the click-family event that follows resolve to  *)
(* the same object, the click handler fires on the targets of the chain    *)
(* that define it, up to one that stops propagation, and onPointerMissed   *)
(* is invoked neither on the clicked object nor on any of its ancestors.   *)
(***************************************************************************)
C10_NoMissOnClicked ==
    \A e \in ClickEvents(Registry) :
        LET hits  == HitsOf(Registry, e)
            r     == Handle(Registry, e)
            chain == Defining(ChainOf(hits[1].eventObject), e.name)
        IN  (hits # <<>> /\ initialHit = hits[1].object) =>
              /\ chain # <<>> => Count(r, chain[1], e.name) = 1
              /\ ~StopCalled(r) => Targets(r, e.name) = chain
              /\ \A o \in Objects :
                    isAncestor(o, hits[1].object)
                        => Count(r, o, "onPointerMissed") = 0

\* B was pressed and is clicked: B, which defines onPointerMissed as its
\* parent G does, gets the click, and only A gets the miss
C10_Witness ==
    /\ initialHit = "B"
    /\ \A o \in {"A", "B", "G"} : "onPointerMissed" \in Handlers(o)
    /\ \E e \in ClickEvents(Registry) :
          /\ e.name = "onClick"
          /\ TopObject(Registry, e) = "B"
          /\ Handle(Registry, e).calls
                = <<Call("A", "onPointerMissed", e.pointerId),
                    Call("B", "onClick", e.pointerId),
                    Call("A", "onPointerMissed", e.pointerId),
                    Call("G", "onClick", e.pointerId)>>

(***************************************************************************)
(* C11, as stated: when a press hit object A and the click-family event    *)
(* arrives more than 2 pixels from the press, where nothing is hit, the    *)
(* click handler does not fire on A and the scene-level onPointerMissed    *)
(* fires.                                                                  *)
(***************************************************************************)
\* the square of the distance of event e from the last press
Distance2(e) ==
    (e.offset[1] - initialClick[1]) * (e.offset[1] - initialClick[1])
      + (e.offset[2] - initialClick[2]) * (e.offset[2] - initialClick[2])

\* the scene-level onPointerMissed was invoked
RootMissed(r) ==
    \E i \in 1..Len(r.calls) :
        r.calls[i] = Call(Root, "onPointerMissed", r.calls[i].p)

C11_Original ==
    \A e \in ClickEvents(Registry) :
        LET r == Handle(Registry, e)
        IN  (/\ initialHit # None
             /\ SceneOnPointerMissed(scene)
             /\ HitsOf(Registry, e) = <<>>
             /\ Distance2(e) > 4)
            => Count(r, initialHit, e.name) = 0 /\ RootMissed(r)

(***************************************************************************)
(* C11, amended: when a press hit object A and the click-family event      *)
(* arrives where nothing is hit, the click handler does not fire on A, and *)
(* the scene-level onPointerMissed fires if and only if the distance of    *)
(* the click from the press, rounded, is at most 2 pixels: a click that    *)
(* arrives farther away invokes nothing at all.                            *)
(***************************************************************************)
C11_DraggedClick ==
    \A e \in ClickEvents(Registry) :
        \A r \in {Handle(Registry, e)} :
            (initialHit # None /\ HitsOf(Registry, e) = <<>>)
            => /\ Count(r, initialHit, e.name) = 0
               /\ RootMissed(r)
                     <=> (SceneOnPointerMissed(scene) /\ 4 * Distance2(e) < 25)
               /\ 4 * Distance2(e) >= 25 => r.calls = <<>>

\* A, which defines onClick, was pressed at (MaxCoord, 0): a click on
\* nothing at (0, MaxCoord) invokes nothing, one at (MaxCoord, 2) is a miss
\* for the scene
C11_Witness ==
    /\ initialHit = "A"
    /\ "onClick" \in Handlers("A")
    /\ initialClick = <<MaxCoord, 0>>
    /\ SceneOnPointerMissed(scene)
    /\ \E e \in ClickEvents(Registry) :
          /\ e.offset = <<0, MaxCoord>>
          /\ HitsOf(Registry, e) = <<>>
          /\ Handle(Registry, e).calls = <<>>
    /\ \E e \in ClickEvents(Registry) :
          /\ e.offset = <<MaxCoord, 2>>
          /\ HitsOf(Registry, e) = <<>>
          /\ RootMissed(Handle(Registry, e))

(***************************************************************************)
(* C12: when the top hit object has no handler at all and an ancestor      *)
(* defines onPointerOver and onPointerOut, the move that brings the        *)
(* pointer onto the object invokes the ancestor's onPointerOver exactly    *)
(* once, and the move that takes the pointer off the object invokes the    *)
(* ancestor's onPointerOut exactly once.  The pointer hovers nothing and   *)
(* holds no capture before the first move.                                 *)
(***************************************************************************)
C12_ParentHover ==
    \A p \in Pointers :
        (hovered[p] = NoEntry /\ capturedMap[p] = NoEntry) =>
            \A m1 \in ShortMoves(Registry, p) :
                LET x  == TopObject(Registry, m1)
                    r1 == Handle(Registry, m1)
                IN  (x # None /\ EventCount(x) = 0) =>
                      \A g \in Objects :
                          (/\ isAncestor(g, x)
                           /\ {"onPointerOver", "onPointerOut"}
                                 \subseteq Handlers(g))
                          => /\ Count(r1, g, "onPointerOver") = 1
                             /\ \A m2 \in ShortMoves(After(r1), p) :
                                   TopObject(After(r1), m2) # x
                                     => Count(Handle(After(r1), m2), g,
                                              "onPointerOut") = 1

(***************************************************************************)
(* C13: hover events bubble.  When a move makes X the new top hit,         *)
(* onPointerOver is invoked exactly once on X and on every ancestor of X   *)
(* that defines it; when the next move leaves X, onPointerOut is invoked   *)
(* exactly once on X and on every ancestor of X that defines it.  No       *)
(* handler stops propagation, and the pointer holds no capture.            *)
(***************************************************************************)
C13_HoverBubbles ==
    \A p \in Pointers :
        capturedMap[p] = NoEntry =>
            \A m1 \in ShortMoves(Registry, p) :
                LET x  == TopObject(Registry, m1)
                    r1 == Handle(Registry, m1)
                IN  (/\ x # None
                     /\ ~SameTop(HitsOf(Registry, m1), <<hovered[p]>>)
                     /\ ~StopCalled(r1))
                    => /\ Targets(r1, "onPointerOver")
                             = Defining(ChainOf(x), "onPointerOver")
                       /\ \A m2 \in ShortMoves(After(r1), p) :
                             TopObject(After(r1), m2) # x
                               => Targets(Handle(After(r1), m2), "onPointerOut")
                                     = Defining(ChainOf(x), "onPointerOut")

(***************************************************************************)
(* C14, as stated: in a dispatch with a non-empty intersection list, an    *)
(* object hit behind the top hit that is not the top hit's object or one   *)
(* of its ancestors receives no onClick, onPointerOver, onPointerOut or    *)
(* onPointerMove call, whatever handlers the top hit's object defines.     *)
(***************************************************************************)
\* the objects event e hits behind its top hit, outside the top hit's chain
Behind(s, e) ==
    LET hits  == HitsOf(s, e)
        chain == ChainOf(TopObject(s, e))
    IN  {hits[k].object : k \in 2..Len(hits)}
            \ {chain[i] : i \in 1..Len(chain)}

C14_Original ==
    \A e \in RaycastEvents(Registry) :
        \A o \in Behind(Registry, e) :
            \A h \in {"onClick", "onPointerOver", "onPointerOut",
                      "onPointerMove"} :
                Count(Handle(Registry, e), o, h) = 0

(***************************************************************************)
(* C14, amended: in a dispatch with a non-empty intersection list, an      *)
(* object hit behind the top hit that is not the top hit's object or one   *)
(* of its ancestors receives no call of a handler of the event's kind (no  *)
(* onClick, onPointerOver, onPointerEnter, onPointerMove, ...), whatever   *)
(* handlers the top hit's object defines; it receives onPointerOut or      *)
(* onPointerLeave only in a move, only when it or one of its descendants   *)
(* was the pointer's hovered object before the move, and then at most      *)
(* once each, the hover entry being deleted.                               *)
(***************************************************************************)
C14_FirstIntersectionOnly ==
    \A e \in RaycastEvents(Registry) :
        \A r \in {Handle(Registry, e)} :
            \A o \in Behind(Registry, e) :
                /\ \A h \in BubbleHandlers(e.name) \cup {"onClick"} :
                       Count(r, o, h) = 0
                /\ \A h \in {"onPointerOut", "onPointerLeave"} :
                       Count(r, o, h) > 0
                           => /\ e.name = "onPointerMove"
                              /\ hovered[e.pointerId] # NoEntry
                              /\ isAncestor(o, hovered[e.pointerId].object)
                              /\ ~SameTop(<<hovered[e.pointerId]>>,
                                          HitsOf(Registry, e))
                              /\ Count(r, o, h) = 1

\* the front object B defines onClick only and the rear object defines the
\* hover handlers (the group G, hit through its mesh A): a move over B in
\* front of A invokes nothing, and a move over A alone invokes G's
\* onPointerOver
C14_Witness ==
    /\ Handlers("B") = {"onClick"}
    /\ "onPointerOver" \in Handlers("G")
    /\ \E e \in MoveEvents(Registry) :
          /\ Len(HitsOf(Registry, e)) = 2
          /\ TopObject(Registry, e) = "B"
          /\ "A" \in Behind(Registry, e)
          /\ Handle(Registry, e).calls = <<>>
    /\ \E e \in MoveEvents(Registry) :
          /\ Len(HitsOf(Registry, e)) = 1
          /\ TopObject(Registry, e) = "A"
          /\ Count(Handle(Registry, e), "G", "onPointerOver") = 1

(***************************************************************************)
(* C15: a lost-pointer-capture event for pointer P deletes P's capture     *)
(* entry, whatever object holds it, and changes nothing else: P's hover    *)
(* entry, the entries of the other pointers and the press stay, and no     *)
(* handler is invoked.  Of the moves and releases of P that follow, one    *)
(* that has the hovered hit as its top hit, or is a release, delivers no   *)
(* onPointerOut or onPointerLeave, and a move with another top hit, or     *)
(* none, delivers onPointerOut exactly once to the hovered object and to   *)
(* each of its ancestors that defines it, and deletes the hover entry or   *)
(* replaces it by one for the new top hit.                                 *)
(***************************************************************************)
\* the calls of onPointerOut and onPointerLeave
Leaves(r) ==
    SelectSeq(r.calls, LAMBDA c : c.h \in {"onPointerOut", "onPointerLeave"})

C15_LostCaptureKeepsHover ==
    \A e \in LostEvents :
        LET p == e.pointerId
            r == Handle(Registry, e)
        IN  /\ r.capturedMap[p] = NoEntry
            /\ \A q \in Pointers \ {p} : r.capturedMap[q] = capturedMap[q]
            /\ r.hovered = hovered
            /\ r.interaction = interaction
            /\ r.initialHit = initialHit
            /\ Leaves(r) = <<>>
            /\ Released(r, p) = IF capturedMap[p] = NoEntry THEN 0 ELSE 1
            /\ hovered[p] # NoEntry =>
                  \A m \in NextEvents(After(r)) :
                      LET r2   == Handle(After(r), m)
                          hits == HitsOf(After(r), m)
                      IN  m.pointerId = p =>
                            IF \/ m.name # "onPointerMove"
                               \/ SameTop(<<hovered[p]>>, hits)
                            THEN /\ Leaves(r2) = <<>>
                                 /\ r2.hovered[p] # NoEntry
                            ELSE /\ Targets(r2, "onPointerOut")
                                       = Defining(ChainOf(hovered[p].object),
                                                  "onPointerOut")
                                 /\ \/ r2.hovered[p] = NoEntry
                                    \/ SameTop(<<r2.hovered[p]>>, hits)

\* the group G captured p1 in a press on its mesh A, which p1 hovers; when
\* the capture is lost the hover stays, a move over A delivers no
\* onPointerOut and a move off A delivers it to A once
C15_Witness ==
    /\ capturedMap["p1"] # NoEntry
    /\ capturedMap["p1"].object = "A" /\ capturedMap["p1"].eventObject = "G"
    /\ hovered["p1"] # NoEntry /\ hovered["p1"].object = "A"
    /\ "onPointerOut" \in Handlers("A")
    /\ \E e \in LostEvents :
          LET r == Handle(Registry, e)
          IN  /\ e.pointerId = "p1"
              /\ r.capturedMap["p1"] = NoEntry
              /\ r.hovered["p1"].object = "A"
              /\ \E m \in ShortMoves(After(r), "p1") :
                    /\ TopObject(After(r), m) = "A"
                    /\ Count(Handle(After(r), m), "A", "onPointerOut") = 0
              /\ \E m \in ShortMoves(After(r), "p1") :
                    /\ TopObject(After(r), m) = None
                    /\ Count(Handle(After(r), m), "A", "onPointerOut") = 1
                    /\ Handle(After(r), m).hovered["p1"] = NoEntry

(***************************************************************************)
(* C16: between dispatches every object a hover entry or a capture entry   *)
(* refers to, as hit object or as event target, is a member of the         *)
(* interaction set, and when removeInteractivity(o) returns no hover       *)
(* entry and no capture entry refers to o in either role.                  *)
(***************************************************************************)
\* the objects the entries of a map refer to, as object or as eventObject
Referenced(map) ==
    UNION {{map[p].object, map[p].eventObject} :
              p \in {q \in Pointers : map[q] # NoEntry}}

C16_EntriesRegistered ==
    /\ Referenced(hovered) \cup Referenced(capturedMap)
           \subseteq {interaction[i] : i \in 1..Len(interaction)}
    /\ \A e \in Removals(Registry) :
           LET r == Handle(Registry, e)
           IN  e.object \notin
                   Referenced(r.hovered) \cup Referenced(r.capturedMap)

(***************************************************************************)
(* C17: intersection normalization returns exactly one entry for each      *)
(* distinct triple (object, index, instanceId) of the raycast result, its  *)
(* first occurrence, in first-seen order: hits with the same triple        *)
(* collapse to one and hits whose triples differ are never collapsed,      *)
(* also when an index field is undefined.                                  *)
(***************************************************************************)
\* the (object, index, instanceId) triple of a hit
Triple(hit) == <<hit.object, hit.index, hit.instanceId>>

\* the first occurrence of every triple of a raycast result, in order
RECURSIVE FirstOfEachTriple(_, _)
FirstOfEachTriple(items, seen) ==
    IF items = <<>> THEN <<>>
    ELSE IF Triple(Head(items)) \in seen
         THEN FirstOfEachTriple(Tail(items), seen)
         ELSE <<Head(items)>>
                \o FirstOfEachTriple(Tail(items),
                                     seen \cup {Triple(Head(items))})

\* C17 is checked for the raycasts of an application that installs no
\* raycaster.filter, whose result is the de-duplicated list
C17_DedupByTriple ==
    \A e \in RaycastEvents(Registry) :
        LET out == intersect(e.enabled, e.filter, e.raw)
        IN  (e.enabled /\ e.filter = NoFilter) =>
              [i \in 1..Len(out) |-> Triple(out[i])]
                  = [i \in 1..Len(FirstOfEachTriple(e.raw, {})) |->
                        Triple(FirstOfEachTriple(e.raw, {})[i])]

(***************************************************************************)
(* C18: in a move of pointer P whose top hit differs from P's hovered hit, *)
(* the calls of onPointerOut and onPointerLeave for the chain of the       *)
(* hovered object come first, and P's hover entry is deleted when they     *)
(* are done, before any onPointerOver or onPointerEnter of the new top     *)
(* hit's chain; on each node onPointerOut comes before onPointerLeave and  *)
(* onPointerOver before onPointerEnter.                                    *)
(***************************************************************************)
\* the positions of the calls of handler h on object o
CallsAt(r, o, h) ==
    {i \in 1..Len(r.calls) : r.calls[i].o = o /\ r.calls[i].h = h}

\* every call of `first` on a node comes before every call of `second` on it
NodeOrder(r, first, second) ==
    \A o \in Objects :
        \A i \in CallsAt(r, o, first) :
            \A j \in CallsAt(r, o, second) : i < j

C18_OutBeforeOver ==
    \A m \in MoveEvents(Registry) :
        LET p    == m.pointerId
            hits == HitsOf(Registry, m)
            r    == Handle(Registry, m)
            u    == Unhover(Registry, m.name, p, hits)
            n    == Len(u.calls)
        IN  (/\ hovered[p] # NoEntry
             /\ hits # <<>>
             /\ ~SameTop(<<hovered[p]>>, hits))
            => /\ u.hovered[p] = NoEntry
               /\ n <= Len(r.calls) /\ SubSeq(r.calls, 1, n) = u.calls
               /\ Leaves(u) = u.calls
               /\ Targets(u, "onPointerOut")
                      = Defining(ChainOf(hovered[p].object), "onPointerOut")
               /\ Targets(u, "onPointerLeave")
                      = Defining(ChainOf(hovered[p].object), "onPointerLeave")
               /\ \A i \in (n + 1)..Len(r.calls) :
                      r.calls[i].h \in {"onPointerOver", "onPointerEnter"}
               /\ NodeOrder(r, "onPointerOut", "onPointerLeave")
               /\ NodeOrder(r, "onPointerOver", "onPointerEnter")
               /\ NodeOrder(r, "onPointerOut", "onPointerOver")

\* p1 hovers A, which defines onPointerOut and onPointerLeave, and moves
\* to B: A and the group G are left before B and G are entered
C18_Witness ==
    /\ hovered["p1"] # NoEntry /\ hovered["p1"].object = "A"
    /\ capturedMap["p1"] = NoEntry
    /\ \E m \in ShortMoves(Registry, "p1") :
          /\ TopObject(Registry, m) = "B"
          /\ Handle(Registry, m).calls
                = <<Call("A", "onPointerOut", "p1"),
                    Call("A", "onPointerLeave", "p1"),
                    Call("G", "onPointerOut", "p1"),
                    Call("B", "onPointerOver", "p1"),
                    Call("G", "onPointerOver", "p1")>>
          /\ Handle(Registry, m).hovered["p1"].object = "B"

(***************************************************************************)
(* C19: a pointer-leave or pointer-cancel event for pointer P that has a   *)
(* hover entry deletes the entry and invokes onPointerOut and then         *)
(* onPointerLeave on exactly the nodes of the hovered object's chain that  *)
(* define them, child to parent, and nothing else (no move or over         *)
(* dispatch follows, no other state changes); when P has no hover entry    *)
(* no handler is invoked and no state changes.                             *)
(***************************************************************************)
\* the calls cancelling the hover of object o delivers, child to parent
RECURSIVE OutAndLeave(_, _)
OutAndLeave(chain, p) ==
    IF chain = <<>> THEN <<>>
    ELSE (IF "onPointerOut" \in Handlers(Head(chain))
          THEN <<Call(Head(chain), "onPointerOut", p)>> ELSE <<>>)
         \o (IF "onPointerLeave" \in Handlers(Head(chain))
             THEN <<Call(Head(chain), "onPointerLeave", p)>> ELSE <<>>)
         \o OutAndLeave(Tail(chain), p)

C19_LeaveCancels ==
    \A e \in LeaveEvents :
        LET p == e.pointerId
            r == Handle(Registry, e)
        IN  IF hovered[p] = NoEntry
            THEN r = Registry
            ELSE /\ r.hovered[p] = NoEntry
                 /\ r.calls = OutAndLeave(ChainOf(hovered[p].object), p)
                 /\ [r EXCEPT !.hovered = hovered, !.calls = <<>>] = Registry
                 /\ \A q \in Pointers \ {p} : r.hovered[q] = hovered[q]

\* p1 hovers A under the group G, both define onPointerOut; a
\* pointer-cancel for p1 leaves A, then G, and a pointer-leave for p2, which
\* hovers nothing, does nothing
C19_Witness ==
    /\ hovered["p1"] # NoEntry /\ hovered["p1"].object = "A"
    /\ hovered["p2"] = NoEntry
    /\ \E e \in LeaveEvents :
          /\ e.name = "onPointerCancel" /\ e.pointerId = "p1"
          /\ Handle(Registry, e).calls
                = <<Call("A", "onPointerOut", "p1"),
                    Call("A", "onPointerLeave", "p1"),
                    Call("G", "onPointerOut", "p1")>>
          /\ Handle(Registry, e).hovered["p1"] = NoEntry
    /\ \E e \in LeaveEvents :
          /\ e.name = "onPointerLeave" /\ e.pointerId = "p2"
          /\ Handle(Registry, e) = Registry

(***************************************************************************)
(* C20: releasing the capture of pointer P does nothing (the capture map   *)
(* is unchanged and the native releasePointerCapture is not invoked) when  *)
(* P has no capture entry, or when the requesting object is given and is   *)
(* not the capture target; otherwise it deletes P's entry and invokes the  *)
(* native releasePointerCapture exactly once, on the stored DOM target,    *)
(* and leaves the entries of all other pointers unchanged.                 *)
(***************************************************************************)
C20_ReleaseRules ==
    \A p \in Pointers :
        \A obj \in Objects \cup {None} :
            LET r == releaseInternalPointerCapture(Registry, obj, p)
            IN  IF \/ capturedMap[p] = NoEntry
                   \/ obj # None /\ obj # capturedMap[p].eventObject
                THEN r = Registry
                ELSE /\ r.capturedMap[p] = NoEntry
                     /\ r.calls
                           = <<Call(DomTarget, "releasePointerCapture", p)>>
                     /\ \A q \in Pointers \ {p} :
                           r.capturedMap[q] = capturedMap[q]
                     /\ r.capturedKeys
                           = SelectSeq(capturedKeys, LAMBDA k : k # p)
                     /\ [r EXCEPT !.capturedMap = capturedMap,
                                  !.capturedKeys = capturedKeys,
                                  !.calls = <<>>] = Registry

\* the group G holds the capture of p1, taken in a press on its mesh A, and
\* p2 holds one too: a release of p1 requested by A does nothing, one by G
\* or by nobody deletes p1's entry and keeps p2's
C20_Witness ==
    /\ capturedMap["p1"] # NoEntry /\ capturedMap["p2"] # NoEntry
    /\ capturedMap["p1"].object = "A" /\ capturedMap["p1"].eventObject = "G"
    /\ releaseInternalPointerCapture(Registry, "A", "p1") = Registry
    /\ \A obj \in {"G", None} :
          LET r == releaseInternalPointerCapture(Registry, obj, "p1")
          IN  /\ r.capturedMap["p1"] = NoEntry
              /\ r.capturedMap["p2"] = capturedMap["p2"]
              /\ Released(r, "p1") = 1

(***************************************************************************)
(* C21: setPointerCapture(P), called through the event synthesized for a   *)
(* target, replaces whatever capture entry P has by the event's            *)
(* intersection with the current bubble target as capture target, sets     *)
(* P's hover entry to the same data, invokes the native setPointerCapture  *)
(* once and leaves the entries of the other pointers alone; a press in     *)
(* which a handler captures leaves P with that one entry.                  *)
(***************************************************************************)
\* the data of the events a dispatch can synthesize: a hit of mounted
\* geometry, delivered to the hit object or to one of its ancestors
EventData ==
    {d \in {[h EXCEPT !.eventObject = o] :
                h \in RawHits(Registry),
                o \in {x \in Objects : EventCount(x) > 0}} :
        isAncestor(d.eventObject, d.object)}

\* the objects whose handler h captures the pointer
Capturing(h) == {o \in Objects : <<o, h>> \in SceneCaptures(scene)}

C21_CaptureReplaces ==
    /\ \A p \in Pointers :
          \A data \in EventData :
              LET r == setPointerCapture(Registry, data, p)
              IN  /\ r.capturedMap[p] = data
                  /\ r.hovered[p] = data
                  /\ r.calls = <<Call(DomTarget, "setPointerCapture", p)>>
                  /\ \A q \in Pointers \ {p} :
                        /\ r.capturedMap[q] = capturedMap[q]
                        /\ r.hovered[q] = hovered[q]
    /\ \A e \in DownEvents(Registry) :
          LET p == e.pointerId
              r == Handle(Registry, e)
          IN  \A o \in Capturing(e.name) :
                  Count(r, o, e.name) > 0
                      => /\ r.capturedMap[p]
                               = [HitsOf(Registry, e)[1] EXCEPT !.eventObject = o]
                         /\ r.hovered[p] = r.capturedMap[p]
                         /\ Count(r, DomTarget, "setPointerCapture") = 1

\* p1 is captured by G in a press on the mesh B: a capture through the
\* event that A's press delivers to G replaces the entry, and a press of
\* p2 on A gives p2 the entry (A, G) and the same hover entry
C21_Witness ==
    /\ capturedMap["p1"] = Hit("B", "G", Undef, Undef)
    /\ capturedMap["p2"] = NoEntry
    /\ Hit("A", "G", Undef, Undef) \in EventData
    /\ setPointerCapture(Registry, Hit("A", "G", Undef, Undef), "p1")
           .capturedMap["p1"] = Hit("A", "G", Undef, Undef)
    /\ \E e \in DownEvents(Registry) :
          /\ e.pointerId = "p2"
          /\ TopObject(Registry, e) = "A"
          /\ Handle(Registry, e).capturedMap["p2"]
                = Hit("A", "G", Undef, Undef)
          /\ Handle(Registry, e).hovered["p2"] = Hit("A", "G", Undef, Undef)

(***************************************************************************)
(* C22: the intersection list of a dispatch holds no two entries with the  *)
(* same identity (event target, index, instanceId): when the pointer is    *)
(* captured and the raycast hits the captured object as well, the          *)
(* captured intersection is in the list once.                              *)
(***************************************************************************)
\* the identity of an intersection of the list
Identity(hit) == <<hit.eventObject, hit.index, hit.instanceId>>

\* C22 is checked for the dispatches of an application that installs no
\* raycaster.filter (a filter may itself return an entry twice)
C22_NoDuplicateHits ==
    \A e \in RaycastEvents(Registry) :
        LET hits == HitsOf(Registry, e)
        IN  e.filter = NoFilter =>
                \A i, j \in 1..Len(hits) :
                    Identity(hits[i]) = Identity(hits[j]) => i = j

(***************************************************************************)
(* C23: the capture entry of pointer P is deleted only by a                *)
(* releasePointerCapture(P) a handler of the capture target calls, by a    *)
(* lost-pointer-capture event for P, or by the removal of the capture      *)
(* target, and it is replaced only by a setPointerCapture(P) a handler     *)
(* calls; an event of any kind in which no handler calls either function   *)
(* and which is neither of the two leaves the capture map as it is.        *)
(***************************************************************************)
\* a handler that calls function f (a scene's captures or releases) was
\* invoked on object o in the dispatch
Called(r, f, o) ==
    \E i \in 1..Len(r.calls) :
        r.calls[i].o = o /\ <<o, r.calls[i].h>> \in f

C23_CaptureFrame ==
    \A e \in Events(Registry) :
        \A r \in {Handle(Registry, e)} :
            /\ \A p \in Pointers :
                  r.capturedMap[p] # capturedMap[p] =>
                      IF r.capturedMap[p] = NoEntry
                      THEN \/ e.name = "onLostPointerCapture" /\ e.pointerId = p
                           \/ /\ e.name = "removeInteractivity"
                              /\ e.object = capturedMap[p].eventObject
                           \/ /\ e.pointerId = p
                              /\ Called(r, SceneReleases(scene),
                                        capturedMap[p].eventObject)
                      ELSE /\ e.pointerId = p
                           /\ Called(r, SceneCaptures(scene),
                                     r.capturedMap[p].eventObject)
            /\ (/\ e.name \notin {"onLostPointerCapture", "removeInteractivity"}
                /\ \A o \in Objects :
                      /\ ~Called(r, SceneReleases(scene), o)
                      /\ ~Called(r, SceneCaptures(scene), o))
               => r.capturedMap = capturedMap

\* A holds the capture of p1: moves, clicks, wheel events and a
\* pointer-cancel keep the entry; a release that reaches A's onPointerUp,
\* a lost-pointer-capture and the removal of A delete it
C23_Witness ==
    /\ capturedMap["p1"] = Hit("A", "A", Undef, Undef)
    /\ \A e \in MoveEvents(Registry) \cup ClickEvents(Registry)
                 \cup WheelEvents(Registry) \cup LeaveEvents :
          Handle(Registry, e).capturedMap = capturedMap
    /\ \E e \in MoveEvents(Registry) :
          e.pointerId = "p1" /\ Count(Handle(Registry, e), "A", e.name) = 1
    /\ \E e \in UpEvents(Registry) :
          /\ e.pointerId = "p1"
          /\ Handle(Registry, e).capturedMap["p1"] = NoEntry
    /\ \E e \in LostEvents : Handle(Registry, e).capturedMap["p1"] = NoEntry
    /\ \E e \in Removals(Registry) :
          e.object = "A" /\ Handle(Registry, e).capturedMap["p1"] = NoEntry

(***************************************************************************)
(* C24: when a handler calls setPointerCapture or releasePointerCapture    *)
(* while a press or a release is bubbling, the targets that receive the    *)
(* event are those the intersection list of the dispatch fixed before the  *)
(* call: the top hit's event target and its ancestors that define the      *)
(* handler, child to parent (no handler of these scenes stops it).  The    *)
(* changed capture decides the top hit of the next dispatch for the        *)
(* pointer: the captured intersection if an entry is left, and the         *)
(* raycast's first hit if none is.                                         *)
(***************************************************************************)
\* a handler called setPointerCapture or releasePointerCapture
CaptureCalled(r) ==
    \E o \in Objects :
        Called(r, SceneCaptures(scene) \cup SceneReleases(scene), o)

C24_CaptureMidFlight ==
    \A e \in DownEvents(Registry) \cup UpEvents(Registry) :
      \A r \in {Handle(Registry, e)} :
        LET p    == e.pointerId
            hits == HitsOf(Registry, e)
        IN  (CaptureCalled(r) /\ ~StopCalled(r))
            => /\ Targets(r, e.name)
                     = Defining(ChainOf(hits[1].eventObject), e.name)
               /\ \A m \in NextEvents(After(r)) :
                     m.pointerId = p =>
                       HitsOf(After(r), m)
                         = (IF r.capturedMap[p] = NoEntry THEN <<>>
                            ELSE <<r.capturedMap[p]>>)
                               \o intersect(m.enabled, m.filter, m.raw)

\* a press of p1 on A: A's handler captures and the press still reaches
\* G; the move that follows over B has the captured intersection first
\* and goes to A
C24_Witness ==
    /\ capturedMap["p1"] = NoEntry
    /\ <<"A", "onPointerDown">> \in SceneCaptures(scene)
    /\ \E e \in DownEvents(Registry) :
          LET r == Handle(Registry, e)
          IN  /\ e.pointerId = "p1"
              /\ TopObject(Registry, e) = "A"
              /\ Targets(r, "onPointerDown") = <<"A", "G">>
              /\ r.capturedMap["p1"] = Hit("A", "A", Undef, Undef)
              /\ \E m \in ShortMoves(After(r), "p1") :
                    /\ m.enabled /\ Len(m.raw) = 1 /\ m.raw[1].object = "B"
                    /\ TopObject(After(r), m) = "A"
                    /\ Count(Handle(After(r), m), "B", "onPointerOver") = 0

(***************************************************************************)
(* C25: the initial-hit object and the press position change only in a     *)
(* pointer-down event, which sets them to its top hit's object (none when  *)
(* it hits nothing) and to its offsets, and in the removal of the          *)
(* initial-hit object, which clears the object; every other event leaves   *)
(* both as they are, so that a click-family event repeated after a single  *)
(* press invokes the handlers the first one invoked.                       *)
(***************************************************************************)
C25_PressFrame ==
    \A e \in Events(Registry) :
        \A r \in {Handle(Registry, e)} :
            /\ CASE e.name = "onPointerDown" ->
                     /\ r.initialHit = TopObject(Registry, e)
                     /\ r.initialClick = e.offset
                 [] e.name = "removeInteractivity" ->
                     /\ r.initialHit
                           = IF initialHit = e.object THEN None ELSE initialHit
                     /\ r.initialClick = initialClick
                 [] OTHER ->
                     r.initialHit = initialHit /\ r.initialClick = initialClick
            /\ (IsClickEvent(e.name) /\ Len(e.raw) <= 1)
               => Handle(After(r), e).calls = r.calls

\* A was pressed at (MaxCoord, 0): a click on A invokes A's onClick and
\* leaves the press, and the same click once more invokes it again; a
\* press on nothing clears the object
C25_Witness ==
    /\ initialHit = "A" /\ initialClick = <<MaxCoord, 0>>
    /\ "onClick" \in Handlers("A")
    /\ \E e \in ClickEvents(Registry) :
          LET r == Handle(Registry, e)
          IN  /\ TopObject(Registry, e) = "A" /\ e.name = "onClick"
              /\ Count(r, "A", "onClick") = 1
              /\ r.initialHit = "A"
              /\ Count(Handle(After(r), e), "A", "onClick") = 1
    /\ \E e \in DownEvents(Registry) :
          /\ TopObject(Registry, e) = None
          /\ Handle(Registry, e).initialHit = None

(***************************************************************************)
(* C26: an onPointerMissed handler is invoked only in the dispatch of a    *)
(* click-family event (click, double-click, context-menu): no pointer-     *)
(* down, pointer-up, wheel or pointer-move event, and no other event,      *)
(* delivers a missed notification to any object or to the canvas.          *)
(***************************************************************************)
\* the positions of the calls of onPointerMissed
MissedCalls(r) ==
    {i \in 1..Len(r.calls) : r.calls[i].h = "onPointerMissed"}

C26_MissedOnlyOnClick ==
    \A e \in Events(Registry) :
        ~IsClickEvent(e.name) => MissedCalls(Handle(Registry, e)) = {}

(***************************************************************************)
(* C27: in the dispatch of one raw event every object's onPointerMissed    *)
(* handler, and the canvas's, is invoked at most once, however many        *)
(* targets of the bubble chain define a handler for the event.             *)
(***************************************************************************)
C27_MissedAtMostOnce ==
    \A e \in Events(Registry) :
        \A o \in Objects \cup {Root} :
            Count(Handle(Registry, e), o, "onPointerMissed") <= 1

(***************************************************************************)
(* C28: onPointerOver and onPointerOut are paired per pointer and object.  *)
(* The specification SpecPaired runs the same events as Spec and keeps     *)
(* two history variables: `paired`, the objects that were given            *)
(* onPointerOver for a pointer and no onPointerOut since, and `clean`,     *)
(* whether the pointer's hover entry was made by a move of the pointer     *)
(* while it held no capture and in which no handler stopped propagation    *)
(* (and was not written by setPointerCapture since).                       *)
(***************************************************************************)
\* the pairs after the calls of a dispatch: onPointerOver opens the pair of
\* its pointer and object, onPointerOut closes it
RECURSIVE PairedAfter(_, _)
PairedAfter(pairs, calls) ==
    IF calls = <<>> THEN pairs
    ELSE LET c == Head(calls)
         IN  PairedAfter(
                 CASE c.h = "onPointerOver" ->
                        [pairs EXCEPT ![c.p] = @ \cup {c.o}]
                   [] c.h = "onPointerOut" ->
                        [pairs EXCEPT ![c.p] = @ \ {c.o}]
                   [] OTHER -> pairs,
                 Tail(calls))

\* every onPointerOut of the calls closes an open pair
RECURSIVE AllPaired(_, _)
AllPaired(pairs, calls) ==
    IF calls = <<>> THEN TRUE
    ELSE /\ Head(calls).h = "onPointerOut"
            => Head(calls).o \in pairs[Head(calls).p]
         /\ AllPaired(PairedAfter(pairs, <<Head(calls)>>), Tail(calls))

\* the move e made the hover entry of its pointer
MadeByMove(e, r) ==
    /\ e.name = "onPointerMove"
    /\ r.hovered[e.pointerId] # NoEntry
    /\ \/ hovered[e.pointerId] = NoEntry
       \/ ~SameTop(<<hovered[e.pointerId]>>, HitsOf(Registry, e))

\* `clean` after event e, which left the registry r
CleanAfter(e, r) ==
    [p \in Pointers |->
        IF r.hovered[p] = NoEntry THEN FALSE
        ELSE IF e.pointerId # p THEN clean[p]
        ELSE IF MadeByMove(e, r)
             THEN capturedMap[p] = NoEntry /\ ~StopCalled(r)
        ELSE IF Count(r, DomTarget, "setPointerCapture") > 0 THEN FALSE
        ELSE clean[p]]

\* the registry is what the event left, and the history follows its calls
StorePaired(e) ==
    \E r \in {Handle(Registry, e)} :
        /\ mounted' = r.mounted
        /\ interaction' = r.interaction
        /\ hovered' = r.hovered
        /\ capturedMap' = r.capturedMap
        /\ capturedKeys' = r.capturedKeys
        /\ initialHit' = r.initialHit
        /\ initialClick' = r.initialClick
        /\ paired' = PairedAfter(paired, r.calls)
        /\ clean' = CleanAfter(e, r)
        /\ UNCHANGED <<scene, walk>>

PairedPointerDown == \E e \in DownEvents(Registry) : StorePaired(e)

PairedPointerUp == \E e \in UpEvents(Registry) : StorePaired(e)

PairedPointerMove == \E e \in MoveEvents(Registry) : StorePaired(e)

PairedClick == \E e \in ClickEvents(Registry) : StorePaired(e)

PairedWheel == \E e \in WheelEvents(Registry) : StorePaired(e)

PairedPointerLeave == \E e \in LeaveEvents : StorePaired(e)

PairedLostPointerCapture == \E e \in LostEvents : StorePaired(e)

PairedRemoveInteractivity == \E e \in Removals(Registry) : StorePaired(e)

NextPaired ==
    \/ PairedPointerDown
    \/ PairedPointerUp
    \/ PairedPointerMove
    \/ PairedClick
    \/ PairedWheel
    \/ PairedPointerLeave
    \/ PairedLostPointerCapture
    \/ PairedRemoveInteractivity

SpecPaired == Init /\ [][NextPaired]_vars

(***************************************************************************)
(* C28, as stated: across any sequence of events, every onPointerOut       *)
(* delivered to an object for pointer P is preceded by an onPointerOver    *)
(* delivered to that object for P, with no other onPointerOut to it for P  *)
(* between them.                                                           *)
(***************************************************************************)
C28_Original ==
    \A e \in Events(Registry) :
        \A r \in {Handle(Registry, e)} : AllPaired(paired, r.calls)

(***************************************************************************)
(* C28, amended: when the hover entry of pointer P was made by a move of   *)
(* P while P held no capture and in which no handler stopped propagation,  *)
(* and setPointerCapture(P) has not written the entry since, every         *)
(* onPointerOut delivered for P to an object that defines onPointerOver    *)
(* is preceded by an onPointerOver delivered to that object for P, with    *)
(* no other onPointerOut to it for P between them; and whatever made the   *)
(* entry, onPointerOut is delivered for P only while P has a hover entry,  *)
(* to the hovered object and its ancestors, once each, and the entry is    *)
(* deleted.                                                                *)
(***************************************************************************)
C28_OverOutPaired ==
    \A e \in Events(Registry) :
        \A r \in {Handle(Registry, e)} :
            \A i \in 1..Len(r.calls) :
                r.calls[i].h = "onPointerOut" =>
                    LET p == r.calls[i].p
                        o == r.calls[i].o
                    IN  /\ p = e.pointerId
                        /\ hovered[p] # NoEntry
                        /\ isAncestor(o, hovered[p].object)
                        /\ Count(r, o, "onPointerOut") = 1
                        /\ r.hovered[p] # hovered[p]
                        /\ (clean[p] /\ "onPointerOver" \in Handlers(o))
                           => o \in PairedAfter(paired,
                                               SubSeq(r.calls, 1, i - 1))[p]

\* p1 hovers A by a move, A and G are paired: leaving closes both pairs;
\* and p2 hovers A because A captured it in a press: A's pair is not
\* open, and p2's leaving delivers onPointerOut to A all the same
C28_Witness ==
    /\ clean["p1"] /\ hovered["p1"].object = "A"
    /\ paired["p1"] = {"A", "G"}
    /\ ~clean["p2"] /\ hovered["p2"].object = "A"
    /\ "A" \notin paired["p2"]
    /\ \E e \in LeaveEvents :
          /\ e.pointerId = "p1"
          /\ Targets(Handle(Registry, e), "onPointerOut") = <<"A", "G">>
          /\ PairedAfter(paired, Handle(Registry, e).calls)["p1"] = {}
    /\ \E e \in LeaveEvents :
          /\ e.pointerId = "p2"
          /\ Count(Handle(Registry, e), "A", "onPointerOut") = 1

(***************************************************************************)
(* C29: a move, leave, cancel or lost-pointer-capture event of pointer Q   *)
(* leaves the hover entry and the capture entry of every other pointer P   *)
(* as they are, and every onPointerOver, onPointerOut, onPointerEnter and  *)
(* onPointerLeave call it delivers is for Q and for an object of Q's old   *)
(* hover chain or of the chain of Q's top hit (the handlers of the scenes  *)
(* pass the event's own pointer id to the capture functions).              *)
(***************************************************************************)
\* the members of a sequence
Range(seq) == {seq[i] : i \in 1..Len(seq)}

C29_PointersIndependent ==
    \A e \in MoveEvents(Registry) \cup LeaveEvents \cup LostEvents :
        \A r \in {Handle(Registry, e)} :
            LET q == e.pointerId
            IN  /\ \A p \in Pointers \ {q} :
                      /\ r.hovered[p] = hovered[p]
                      /\ r.capturedMap[p] = capturedMap[p]
                /\ \A i \in 1..Len(r.calls) :
                      r.calls[i].h \in {"onPointerOver", "onPointerOut",
                                        "onPointerEnter", "onPointerLeave"}
                          => /\ r.calls[i].p = q
                             /\ r.calls[i].o \in
                                   Range(ChainOf(hovered[q].object)) \cup
                                   Range(ChainOf(TopObject(Registry, e)))

\* p1 hovers A and is captured by it; p2 moves onto B and is cancelled:
\* p2's hover entry comes and goes, p1's entries stay, and A hears nothing
C29_Witness ==
    /\ hovered["p1"] # NoEntry /\ hovered["p1"].object = "A"
    /\ capturedMap["p1"] # NoEntry
    /\ hovered["p2"] = NoEntry
    /\ \E e \in ShortMoves(Registry, "p2") :
          LET r == Handle(Registry, e)
          IN  /\ TopObject(Registry, e) = "B"
              /\ r.hovered["p2"].object = "B"
              /\ Count(r, "B", "onPointerOver") = 1
              /\ r.hovered["p1"] = hovered["p1"]
              /\ r.capturedMap["p1"] = capturedMap["p1"]
              /\ Silent(r, "A")
              /\ \E c \in LeaveEvents :
                    /\ c.pointerId = "p2"
                    /\ Handle(After(r), c).hovered["p2"] = NoEntry
                    /\ Handle(After(r), c).hovered["p1"] = hovered["p1"]
                    /\ Count(Handle(After(r), c), "B", "onPointerOut") = 1

(***************************************************************************)
(* C30: every walk along parent links ends.  SpecWalk runs the three       *)
(* loops of the dispatcher that follow Object3D.parent, one iteration a    *)
(* step, in every parent graph over three objects in which no object is    *)
(* its own parent (Object3D.add refuses that, and nothing else): the       *)
(* graphs in which two or three objects form a cycle are among them.       *)
(***************************************************************************)
WalkObjects == {"G", "H", "A"}

\* Object3D.parent of every object: another object or none
ParentGraphs ==
    {g \in [WalkObjects -> WalkObjects \cup {None}] :
        \A o \in WalkObjects : g[o] # o}

\* the walks at their start: the bubbling loop of handleIntersects from the
\* hit object (no handler stops it), the leave loop of cancelPointer from
\* the hovered object, and isAncestor(ancestor, child)
Walks ==
    {[kind |-> k, parent |-> g, at |-> o, ancestor |-> None,
      running |-> TRUE] :
        k \in {"bubble", "leave"}, g \in ParentGraphs, o \in WalkObjects}
    \cup
    {[kind |-> "isAncestor", parent |-> g, at |-> o, ancestor |-> a,
      running |-> TRUE] :
        g \in ParentGraphs, o \in WalkObjects, a \in WalkObjects}

InitWalk ==
    /\ scene \in Scenes
    /\ mounted = Objects
    /\ interaction = Registered(<<"G", "H", "A", "B">>)
    /\ hovered = [p \in Pointers |-> NoEntry]
    /\ capturedMap = [p \in Pointers |-> NoEntry]
    /\ capturedKeys = <<>>
    /\ initialHit = None
    /\ initialClick = <<0, 0>>
    /\ paired = [p \in Pointers |-> {}]
    /\ clean = [p \in Pointers |-> FALSE]
    /\ walk \in Walks

\* the walk goes on to the parent, or ends
Ascend ==
    /\ walk' = IF walk.at = None
               THEN [walk EXCEPT !.running = FALSE]
               ELSE [walk EXCEPT !.at = walk.parent[walk.at]]
    /\ UNCHANGED <<scene, mounted, interaction, hovered, capturedMap,
                   capturedKeys, initialHit, initialClick, paired, clean>>

\* one test and update of the for loop of handleIntersects:
\* `hit.eventObject && !localState.stopped`, then eventObject.parent
BubbleStep == walk.running /\ walk.kind = "bubble" /\ Ascend

\* one test and update of the for loop of cancelPointer
LeaveStep == walk.running /\ walk.kind = "leave" /\ Ascend

\* one iteration of the while loop of isAncestor
AncestorStep ==
    /\ walk.running /\ walk.kind = "isAncestor"
    /\ walk' = IF walk.at = None \/ walk.at = walk.ancestor
               THEN [walk EXCEPT !.running = FALSE]
               ELSE [walk EXCEPT !.at = walk.parent[walk.at]]
    /\ UNCHANGED <<scene, mounted, interaction, hovered, capturedMap,
                   capturedKeys, initialHit, initialClick, paired, clean>>

NextWalk ==
    \/ BubbleStep
    \/ LeaveStep
    \/ AncestorStep

\* a loop that can take its next iteration takes it
SpecWalk == InitWalk /\ [][NextWalk]_vars /\ WF_vars(NextWalk)

\* C30: every walk ends after finitely many steps, whatever the parent graph
C30_WalksTerminate == <>(~walk.running)

====
